---- MODULE Spec2Model ----
(***************************************************************************)
(* A model of the ABS Key Economic Indicators scraper                      *)
(* (financial_data_collector/abs_data_collector/ingest/abs_economic_data.py)*)
(* Python strings are sequences of one-character strings, so that the      *)
(* regular expressions and string methods of the source are computed       *)
(* character by character.                                                 *)
(***************************************************************************)
EXTENDS Integers, Sequences, FiniteSets, TLC

(***************************************************************************)
(* Text primitives: str.lower, str.strip, the `in` substring test, and the *)
(* character classes \s, \w, \d of the re module.                          *)
(***************************************************************************)
LowerAlpha == <<"a","b","c","d","e","f","g","h","i","j","k","l","m","n","o","p","q","r","s","t","u","v","w","x","y","z">>

UpperAlpha == <<"A","B","C","D","E","F","G","H","I","J","K","L","M","N","O","P","Q","R","S","T","U","V","W","X","Y","Z">>

DigitChars == {"0","1","2","3","4","5","6","7","8","9"}

SpaceChars == {" ", "\t", "\n"}

UpperChars == {UpperAlpha[i] : i \in 1..26}

LowerChars == {LowerAlpha[i] : i \in 1..26}

WordChars == UpperChars \cup LowerChars \cup DigitChars \cup {"_"}

ToLower == [c \in UpperChars |-> LowerAlpha[CHOOSE i \in 1..26 : UpperAlpha[i] = c]]

ToUpper == [c \in LowerChars |-> UpperAlpha[CHOOSE i \in 1..26 : LowerAlpha[i] = c]]

IsUpper(c) == c \in UpperChars

IsLower(c) == c \in LowerChars

lower_char(c) == IF c \in UpperChars THEN ToLower[c] ELSE c

upper_char(c) == IF c \in LowerChars THEN ToUpper[c] ELSE c

\* the sequence f, built element by element
Seq_(f) == SubSeq(f, 1, Len(f))

str_lower(s) == Seq_([i \in 1..Len(s) |-> lower_char(s[i])])

str_upper(s) == Seq_([i \in 1..Len(s) |-> upper_char(s[i])])

IsSpace(c) == c \in SpaceChars

IsDigit(c) == c \in DigitChars

IsWordChar(c) == c \in WordChars

SetMin(S) == CHOOSE x \in S : \A y \in S : x <= y

SetMax(S) == CHOOSE x \in S : \A y \in S : x >= y

str_strip(s) ==
    LET keep == {i \in 1..Len(s) : ~IsSpace(s[i])}
    IN  IF keep = {} THEN << >> ELSE SubSeq(s, SetMin(keep), SetMax(keep))

\* s[i:i+len(pat)] == pat
StartsWithAt(s, i, pat) ==
    /\ i >= 1
    /\ i + Len(pat) - 1 <= Len(s)
    /\ \A k \in 1..Len(pat) : s[i + k - 1] = pat[k]

\* pat in s
Contains(s, pat) == \E i \in 1..(Len(s) - Len(pat) + 1) : StartsWithAt(s, i, pat)

\* the end (exclusive) of the greedy match of \s* at position i
SpaceRunEnd(s, i) ==
    CHOOSE j \in i..(Len(s) + 1) :
        /\ \A k \in i..(j - 1) : IsSpace(s[k])
        /\ j = Len(s) + 1 \/ ~IsSpace(s[j])

\* the match of \d{4} at position i
FourDigitsAt(s, i) == i >= 1 /\ i + 3 <= Len(s) /\ \A k \in i..(i + 3) : IsDigit(s[k])

(***************************************************************************)
(* re.sub(r'\s+qtr\s+', ' Qtr ', text, flags=re.IGNORECASE): leftmost,     *)
(* greedy, non-overlapping replacement.                                    *)
(***************************************************************************)
RECURSIVE sub_qtr_from(_, _)
sub_qtr_from(s, i) ==
    IF i > Len(s) THEN << >>
    ELSE IF IsSpace(s[i])
         THEN LET j == SpaceRunEnd(s, i)
              IN  IF /\ StartsWithAt(str_lower(s), j, <<"q","t","r">>)
                     /\ j + 3 <= Len(s)
                     /\ IsSpace(s[j + 3])
                  THEN <<" ","Q","t","r"," ">> \o sub_qtr_from(s, SpaceRunEnd(s, j + 3))
                  ELSE <<s[i]>> \o sub_qtr_from(s, i + 1)
         ELSE <<s[i]>> \o sub_qtr_from(s, i + 1)

sub_qtr(s) == sub_qtr_from(s, 1)

normalize_period_text(period_text) ==
    IF period_text = << >> THEN period_text
    ELSE str_strip(sub_qtr(period_text))

(***************************************************************************)
(* _detect_frequency                                                       *)
(***************************************************************************)
quarter_keywords == { <<"q","t","r">>, <<"q","u","a","r","t","e","r">> }

month_keywords ==
    { <<"j","a","n">>, <<"f","e","b">>, <<"m","a","r">>, <<"a","p","r">>,
      <<"m","a","y">>, <<"j","u","n">>, <<"j","u","l">>, <<"a","u","g">>,
      <<"s","e","p">>, <<"o","c","t">>, <<"n","o","v">>, <<"d","e","c">>,
      <<"j","u","n","e">> }

\* re.match(r'^\d{4}$', s): $ also matches before one trailing newline
IsYearOnly(s) ==
    /\ FourDigitsAt(s, 1)
    /\ Len(s) = 4 \/ (Len(s) = 5 /\ s[5] = "\n")

\* _detect_frequency with the month test made before the quarter test
detect_frequency_month_first(period_text) ==
    IF period_text = << >> THEN "unknown"
    ELSE LET period_lower == str_lower(period_text)
         IN  IF \E keyword \in month_keywords : Contains(period_lower, keyword)
             THEN "monthly"
             ELSE IF \E keyword \in quarter_keywords : Contains(period_lower, keyword)
             THEN "quarterly"
             ELSE IF IsYearOnly(str_strip(period_text))
             THEN "annual"
             ELSE "unknown"

detect_frequency(period_text) ==
    IF period_text = << >> THEN "unknown"
    ELSE LET period_lower == str_lower(period_text)
         IN  IF \E keyword \in quarter_keywords : Contains(period_lower, keyword)
             THEN "quarterly"
             ELSE IF \E keyword \in month_keywords : Contains(period_lower, keyword)
             THEN "monthly"
             ELSE IF IsYearOnly(str_strip(period_text))
             THEN "annual"
             ELSE "unknown"

(***************************************************************************)
(* _parse_period_to_datetime                                               *)
(***************************************************************************)
NoMatch == [matched |-> FALSE, month_abbr |-> << >>, year |-> << >>]

\* re.match(r'(\w{3})\s+(?:Qtr|Quarter)\s+(\d{4})', s, re.IGNORECASE)
quarter_match(s) ==
    IF ~(Len(s) >= 4 /\ (\A k \in 1..3 : IsWordChar(s[k])) /\ IsSpace(s[4]))
    THEN NoMatch
    ELSE LET j == SpaceRunEnd(s, 4)
             ends == {e \in {j + 3, j + 7} :
                        /\ StartsWithAt(str_lower(s), j,
                              IF e = j + 3 THEN <<"q","t","r">>
                                           ELSE <<"q","u","a","r","t","e","r">>)
                        /\ e <= Len(s)
                        /\ IsSpace(s[e])
                        /\ FourDigitsAt(s, SpaceRunEnd(s, e))}
         IN  IF ends = {} THEN NoMatch
             ELSE LET y == SpaceRunEnd(s, SetMin(ends))
                  IN  [matched |-> TRUE, month_abbr |-> SubSeq(s, 1, 3),
                       year |-> SubSeq(s, y, y + 3)]

\* re.match(r'(\w{3,4})\s+(\d{4})', s): the greedy {3,4} tries 4, then 3
month_match(s) ==
    LET lens == {n \in {3, 4} :
                    /\ Len(s) > n
                    /\ \A k \in 1..n : IsWordChar(s[k])
                    /\ IsSpace(s[n + 1])
                    /\ FourDigitsAt(s, SpaceRunEnd(s, n + 1))}
    IN  IF lens = {} THEN NoMatch
        ELSE LET n == SetMax(lens)
                 y == SpaceRunEnd(s, n + 1)
             IN  [matched |-> TRUE, month_abbr |-> SubSeq(s, 1, n),
                  year |-> SubSeq(s, y, y + 3)]

\* month_map of the quarterly branch, with its default
quarter_month_map(month_abbr) ==
    CASE month_abbr = <<"M","a","r">> -> <<"0","3">>
      [] month_abbr = <<"J","u","n">> -> <<"0","6">>
      [] month_abbr = <<"S","e","p">> -> <<"0","9">>
      [] month_abbr = <<"D","e","c">> -> <<"1","2">>
      [] OTHER -> <<"0","1">>

\* month_map of the monthly branch, with its default
month_month_map(month_abbr) ==
    CASE month_abbr = <<"J","a","n">> -> <<"0","1">>
      [] month_abbr = <<"F","e","b">> -> <<"0","2">>
      [] month_abbr = <<"M","a","r">> -> <<"0","3">>
      [] month_abbr = <<"A","p","r">> -> <<"0","4">>
      [] month_abbr = <<"M","a","y">> -> <<"0","5">>
      [] month_abbr = <<"J","u","n">> -> <<"0","6">>
      [] month_abbr = <<"J","u","n","e">> -> <<"0","6">>
      [] month_abbr = <<"J","u","l">> -> <<"0","7">>
      [] month_abbr = <<"A","u","g">> -> <<"0","8">>
      [] month_abbr = <<"S","e","p">> -> <<"0","9">>
      [] month_abbr = <<"O","c","t">> -> <<"1","0">>
      [] month_abbr = <<"N","o","v">> -> <<"1","1">>
      [] month_abbr = <<"D","e","c">> -> <<"1","2">>
      [] OTHER -> <<"0","1">>

\* f"{year}-{month}-01T00:00:00"
iso_date(year, month) ==
    year \o <<"-">> \o month \o <<"-","0","1","T","0","0",":","0","0",":","0","0">>

\* None, where a str is expected: no text holds a several-letter element
Null == <<"None">>

\* _parse_period_to_datetime without the year-only branch
parse_period_to_datetime_no_year(period_text0) ==
    LET period_text == sub_qtr(str_strip(period_text0))
        qm == quarter_match(period_text)
        mm == month_match(period_text)
    IN  IF qm.matched THEN iso_date(qm.year, quarter_month_map(qm.month_abbr))
        ELSE IF mm.matched THEN iso_date(mm.year, month_month_map(mm.month_abbr))
        ELSE Null

parse_period_to_datetime(period_text0) ==
    LET period_text == sub_qtr(str_strip(period_text0))
        qm == quarter_match(period_text)
        mm == month_match(period_text)
    IN  IF qm.matched THEN iso_date(qm.year, quarter_month_map(qm.month_abbr))
        ELSE IF mm.matched THEN iso_date(mm.year, month_month_map(mm.month_abbr))
        ELSE IF FourDigitsAt(period_text, 1) THEN iso_date(SubSeq(period_text, 1, 4), <<"0","1">>)
        ELSE Null

(***************************************************************************)
(* _parse_numeric_value.  A float is kept as sign, decimal mantissa and    *)
(* decimal exponent (mantissa without trailing zeros), or as inf / nan;    *)
(* None is the value of kind "null"; the value of kind "ValueError" is     *)
(* that exception on its way out of a call.                                *)
(***************************************************************************)
\* the character U+2212 (unicode minus)
UnicodeMinus == "U+2212"

DigitSeq == <<"0","1","2","3","4","5","6","7","8","9">>

DigitVal(c) == (CHOOSE d \in 1..10 : DigitSeq[d] = c) - 1

RECURSIVE DigitsToNat(_)
DigitsToNat(ds) ==
    IF ds = << >> THEN 0
    ELSE 10 * DigitsToNat(SubSeq(ds, 1, Len(ds) - 1)) + DigitVal(ds[Len(ds)])

NoneValue == [kind |-> "null", neg |-> FALSE, mant |-> 0, exp |-> 0]

ValueError == [kind |-> "ValueError", neg |-> FALSE, mant |-> 0, exp |-> 0]

\* re.sub(r'[,$%\s]', '', value_text)
strip_decorations(value_text) ==
    LET Keep(c) == ~(c \in {",", "$", "%"} \/ IsSpace(c))
    IN  SelectSeq(value_text, Keep)

\* cleaned.lstrip('-')
lstrip_minus_ascii(s) ==
    LET keep == {i \in 1..Len(s) : s[i] /= "-"}
    IN  IF keep = {} THEN << >> ELSE SubSeq(s, SetMin(keep), Len(s))

\* cleaned.lstrip('-−')
lstrip_minus(s) ==
    LET keep == {i \in 1..Len(s) : s[i] \notin {"-", UnicodeMinus}}
    IN  IF keep = {} THEN << >> ELSE SubSeq(s, SetMin(keep), Len(s))

\* digitpart of the float grammar: digits, single underscores between them
IsDigitPart(s) ==
    /\ Len(s) >= 1
    /\ IsDigit(s[1]) /\ IsDigit(s[Len(s)])
    /\ \A k \in 1..Len(s) : IsDigit(s[k]) \/ s[k] = "_"
    /\ \A k \in 1..(Len(s) - 1) : ~(s[k] = "_" /\ s[k + 1] = "_")

RECURSIVE normalize_float(_, _, _)
normalize_float(neg, mant, exp) ==
    IF mant = 0 THEN [kind |-> "num", neg |-> neg, mant |-> 0, exp |-> 0]
    ELSE IF mant % 10 = 0 THEN normalize_float(neg, mant \div 10, exp + 1)
    ELSE [kind |-> "num", neg |-> neg, mant |-> mant, exp |-> exp]

\* float(s) for a str without surrounding whitespace
python_float(s) ==
    LET signed == s /= << >> /\ s[1] \in {"+", "-"}
        neg    == s /= << >> /\ s[1] = "-"
        body   == IF signed THEN SubSeq(s, 2, Len(s)) ELSE s
        low    == str_lower(body)
        epos   == {i \in 1..Len(body) : low[i] = "e"}
        mtxt   == IF epos = {} THEN body ELSE SubSeq(body, 1, SetMin(epos) - 1)
        etxt   == IF epos = {} THEN << >> ELSE SubSeq(body, SetMin(epos) + 1, Len(body))
        esign  == etxt /= << >> /\ etxt[1] \in {"+", "-"}
        edig   == IF esign THEN SubSeq(etxt, 2, Len(etxt)) ELSE etxt
        dots   == {i \in 1..Len(mtxt) : mtxt[i] = "."}
        ip     == IF dots = {} THEN mtxt ELSE SubSeq(mtxt, 1, SetMin(dots) - 1)
        fp     == IF dots = {} THEN << >> ELSE SubSeq(mtxt, SetMin(dots) + 1, Len(mtxt))
        mok    == /\ Cardinality(dots) <= 1
                  /\ ip = << >> \/ IsDigitPart(ip)
                  /\ fp = << >> \/ IsDigitPart(fp)
                  /\ ~(ip = << >> /\ fp = << >>)
        eok    == epos = {} \/ (Cardinality(epos) = 1 /\ IsDigitPart(edig))
        fdig   == SelectSeq(fp, IsDigit)
        eval   == IF epos = {} THEN 0
                  ELSE IF esign /\ etxt[1] = "-" THEN 0 - DigitsToNat(SelectSeq(edig, IsDigit))
                  ELSE DigitsToNat(SelectSeq(edig, IsDigit))
    IN  IF low \in { <<"i","n","f">>, <<"i","n","f","i","n","i","t","y">> }
        THEN [kind |-> "inf", neg |-> neg, mant |-> 0, exp |-> 0]
        ELSE IF low = <<"n","a","n">>
        THEN [kind |-> "nan", neg |-> FALSE, mant |-> 0, exp |-> 0]
        ELSE IF mok /\ eok
        THEN normalize_float(neg, DigitsToNat(SelectSeq(ip, IsDigit) \o fdig), eval - Len(fdig))
        ELSE ValueError

missing_tokens == { <<"n","a">>, <<"N","P">>, <<".",".">>, <<"n","/","a">> }

\* "except (ValueError, AttributeError): return None"
except_ValueError(v) == IF v.kind = "ValueError" THEN NoneValue ELSE v

\* _parse_numeric_value without its except clause
parse_numeric_value_uncaught(value_text) ==
    LET stripped == strip_decorations(value_text)
        cleaned  == IF stripped /= << >> /\ stripped[1] \in {"-", UnicodeMinus}
                    THEN <<"-">> \o lstrip_minus(stripped)
                    ELSE stripped
    IN  IF cleaned /= << >> /\ cleaned \notin missing_tokens
        THEN python_float(SelectSeq(cleaned, LAMBDA c : c /= ","))
        ELSE NoneValue

\* _parse_numeric_value with 0.0 returned where it returns None
parse_numeric_value_zero_default(value_text) ==
    LET stripped == strip_decorations(value_text)
        cleaned  == IF stripped /= << >> /\ stripped[1] \in {"-", UnicodeMinus}
                    THEN <<"-">> \o lstrip_minus(stripped)
                    ELSE stripped
        zero == [kind |-> "num", neg |-> FALSE, mant |-> 0, exp |-> 0]
        ZeroForValueError(v) == IF v.kind = "ValueError" THEN zero ELSE v
    IN  IF cleaned /= << >> /\ cleaned \notin missing_tokens
        THEN ZeroForValueError(python_float(SelectSeq(cleaned, LAMBDA c : c /= ",")))
        ELSE zero

parse_numeric_value(value_text) ==
    LET stripped == strip_decorations(value_text)
        cleaned  == IF stripped /= << >> /\ stripped[1] \in {"-", UnicodeMinus}
                    THEN <<"-">> \o lstrip_minus(stripped)
                    ELSE stripped
    IN  IF cleaned /= << >> /\ cleaned \notin missing_tokens
        THEN except_ValueError(python_float(SelectSeq(cleaned, LAMBDA c : c /= ",")))
        ELSE NoneValue

(***************************************************************************)
(* _generate_dataset_id                                                    *)
(***************************************************************************)
\* term_map, in its insertion order: <<term, abbreviation>>
term_map ==
    <<
       <<<<"g","r","o","s","s"," ","d","o","m","e","s","t","i","c"," ","p","r","o","d","u","c","t">>,
         <<"g","d","p">>>>,
       <<<<"c","o","n","s","u","m","e","r"," ","p","r","i","c","e"," ","i","n","d","e","x">>,
         <<"c","p","i">>>>,
       <<<<"u","n","e","m","p","l","o","y","m","e","n","t"," ","r","a","t","e">>,
         <<"u","n","e","m","p","l","o","y","_","r","a","t","e">>>>,
       <<<<"e","m","p","l","o","y","e","d"," ","p","e","r","s","o","n","s">>,
         <<"e","m","p","l","o","y","e","d">>>>,
       <<<<"p","a","r","t","i","c","i","p","a","t","i","o","n"," ","r","a","t","e">>,
         <<"p","a","r","t","i","c","i","p","_","r","a","t","e">>>>,
       <<<<"r","e","t","a","i","l"," ","t","u","r","n","o","v","e","r">>,
         <<"r","e","t","a","i","l">>>>,
       <<<<"b","u","i","l","d","i","n","g"," ","a","p","p","r","o","v","a","l","s">>,
         <<"b","u","i","l","d","i","n","g","_","a","p","p">>>>,
       <<<<"w","a","g","e"," ","p","r","i","c","e"," ","i","n","d","e","x">>,
         <<"w","p","i">>>>,
       <<<<"d","w","e","l","l","i","n","g">>,
         <<"d","w","e","l","l","i","n","g">>>>,
       <<<<"l","o","a","n"," ","c","o","m","m","i","t","m","e","n","t","s">>,
         <<"l","o","a","n","s">>>>,
       <<<<"b","a","l","a","n","c","e"," ","o","n"," ","g","o","o","d","s">>,
         <<"t","r","a","d","e","_","b","a","l","a","n","c","e">>>>,
       <<<<"c","u","r","r","e","n","t"," ","a","c","c","o","u","n","t">>,
         <<"c","u","r","r","e","n","t","_","a","c","c">>>>
    >>

\* re.sub(r'[^\w\s]', '', s)
strip_punctuation(s) ==
    LET Keep(c) == IsWordChar(c) \/ IsSpace(c)
    IN  SelectSeq(s, Keep)

\* str.split(): the maximal runs of non-whitespace, in order
RECURSIVE split_from(_, _)
split_from(s, i) ==
    IF i > Len(s) THEN << >>
    ELSE IF IsSpace(s[i]) THEN split_from(s, i + 1)
    ELSE LET stops == {j \in i..Len(s) : IsSpace(s[j])}
             e == IF stops = {} THEN Len(s) + 1 ELSE SetMin(stops)
         IN  <<SubSeq(s, i, e - 1)>> \o split_from(s, e)

str_split(s) == split_from(s, 1)

\* s[:n]
Take(s, n) == SubSeq(s, 1, IF Len(s) < n THEN Len(s) ELSE n)

\* '_'.join(parts)
RECURSIVE join_underscore(_)
join_underscore(parts) ==
    IF parts = << >> THEN << >>
    ELSE IF Len(parts) = 1 THEN parts[1]
    ELSE parts[1] \o <<"_">> \o join_underscore(Tail(parts))

\* str.replace(' ', '_')
replace_space(s) == Seq_([i \in 1..Len(s) |-> IF s[i] = " " THEN "_" ELSE s[i]])

MaxIdLen == 50

WordsTaken == 3

WordPrefixLen == 4

MinWordLen == 3

CategoryPrefixLen == 4

\* the first-words branch without the cut of a word to its first characters
first_words_terms_whole(cleaned) ==
    LET words == Take(str_split(cleaned), WordsTaken)
    IN  SelectSeq(words, LAMBDA word : Len(word) >= MinWordLen)

\* the first-words branch without the test of the length of a word
first_words_terms_unfiltered(cleaned) ==
    LET words == Take(str_split(cleaned), WordsTaken)
    IN  Seq_([i \in 1..Len(words) |-> Take(words[i], WordPrefixLen)])

\* the first-words branch: [word[:4] for word in cleaned.split()[:3] if len(word) > 2]
first_words_terms(cleaned) ==
    LET words == Take(str_split(cleaned), WordsTaken)
        kept  == SelectSeq(words, LAMBDA word : Len(word) >= MinWordLen)
    IN  Seq_([i \in 1..Len(kept) |-> Take(kept[i], WordPrefixLen)])

\* _generate_dataset_id with the sentinel returned for an empty cleaned text
generate_dataset_id_cleaned_check(indicator_text, category) ==
    LET cleaned == strip_punctuation(str_lower(indicator_text))
    IN  IF cleaned = << >> THEN <<"u","n","k","n","o","w","n">>
        ELSE LET hits == {i \in 1..Len(term_map) : Contains(cleaned, term_map[i][1])}
                 key_terms == IF hits /= {} THEN <<term_map[SetMin(hits)][2]>>
                              ELSE first_words_terms(cleaned)
                 category_abbrev == Take(replace_space(str_lower(category)), CategoryPrefixLen)
                 dataset_id == <<"a","b","s","_">> \o category_abbrev \o <<"_">>
                                  \o join_underscore(key_terms)
             IN  Take(dataset_id, MaxIdLen)

generate_dataset_id(indicator_text, category) ==
    IF indicator_text = << >> THEN <<"u","n","k","n","o","w","n">>
    ELSE LET cleaned == strip_punctuation(str_lower(indicator_text))
             hits == {i \in 1..Len(term_map) : Contains(cleaned, term_map[i][1])}
             key_terms == IF hits /= {} THEN <<term_map[SetMin(hits)][2]>>
                          ELSE first_words_terms(cleaned)
             category_abbrev == Take(replace_space(str_lower(category)), CategoryPrefixLen)
             dataset_id == <<"a","b","s","_">> \o category_abbrev \o <<"_">>
                              \o join_underscore(key_terms)
         IN  Take(dataset_id, MaxIdLen)

(***************************************************************************)
(* The fixed category list of scrape_key_indicators                        *)
(***************************************************************************)
categories ==
    <<
       <<"N","a","t","i","o","n","a","l"," ","a","c","c","o","u","n","t","s">>,
       <<"I","n","t","e","r","n","a","t","i","o","n","a","l"," ","a","c","c","o","u","n","t","s">>,
       <<"C","o","n","s","u","m","p","t","i","o","n"," ","a","n","d"," ","i","n","v","e","s","t","m","e","n","t">>,
       <<"P","r","o","d","u","c","t","i","o","n">>,
       <<"P","r","i","c","e","s">>,
       <<"L","a","b","o","u","r"," ","f","o","r","c","e"," ","a","n","d"," ","d","e","m","o","g","r","a","p","h","y">>,
       <<"I","n","c","o","m","e","s">>,
       <<"L","e","n","d","i","n","g"," ","i","n","d","i","c","a","t","o","r","s">>
    >>

(***************************************************************************)
(* The fetched document.  A page is the sequence, in document order, of    *)
(* its heading-like elements (h3, h4, strong) and its tables:              *)
(*   [kind |-> "heading", text |-> get_text(), rows |-> << >>]             *)
(*   [kind |-> "table", text |-> the table's text outside its cells        *)
(*                               (a caption), rows |-> its tr elements]    *)
(* A row is the sequence of its td/th cells, a cell is                     *)
(*   [text |-> get_text(), link |-> href of its <a>, '' without one].      *)
(***************************************************************************)
RECURSIVE concat_texts(_)
concat_texts(ts) == IF ts = << >> THEN << >> ELSE Head(ts) \o concat_texts(Tail(ts))

row_get_text(row) == concat_texts(Seq_([i \in 1..Len(row) |-> row[i].text]))

\* table.get_text(): every string of the table, in document order
table_get_text(tbl) ==
    tbl.text \o concat_texts(Seq_([i \in 1..Len(tbl.rows) |-> row_get_text(tbl.rows[i])]))

\* the containment test without the two lower() calls
mentions_case_sensitive(text, category) == Contains(text, category)

\* category.lower() in text.lower()
mentions(text, category) == Contains(str_lower(text), str_lower(category))

(***************************************************************************)
(* _parse_table                                                            *)
(***************************************************************************)
MinCells == 5

\* the body of the row loop with the dataset id made of the cell text as
\* it stands in the markup
parse_row_raw_indicator(cells, category) ==
    LET cell_values == Seq_([i \in 1..Len(cells) |->
                           [text |-> str_strip(cells[i].text), link |-> cells[i].link]])
        normalized_period == normalize_period_text(cell_values[2].text)
        indicator_text == cell_values[1].text
    IN  [category |-> category,
         indicator |-> indicator_text,
         indicator_link |-> cell_values[1].link,
         period |-> normalized_period,
         unit |-> cell_values[3].text,
         value |-> parse_numeric_value(cell_values[4].text),
         value_raw |-> cell_values[4].text,
         change_previous_period |-> IF Len(cell_values) > 4 THEN cell_values[5].text ELSE << >>,
         change_year_on_year |-> IF Len(cell_values) > 5 THEN cell_values[6].text ELSE << >>,
         datetime |-> parse_period_to_datetime(normalized_period),
         frequency |-> detect_frequency(normalized_period),
         dataset_id |-> generate_dataset_id(cells[1].text, category)]

\* the body of the row loop for a row of at least MinCells cells
parse_row(cells, category) ==
    LET cell_values == Seq_([i \in 1..Len(cells) |->
                           [text |-> str_strip(cells[i].text), link |-> cells[i].link]])
        normalized_period == normalize_period_text(cell_values[2].text)
        indicator_text == cell_values[1].text
    IN  [category |-> category,
         indicator |-> indicator_text,
         indicator_link |-> cell_values[1].link,
         period |-> normalized_period,
         unit |-> cell_values[3].text,
         value |-> parse_numeric_value(cell_values[4].text),
         value_raw |-> cell_values[4].text,
         change_previous_period |-> IF Len(cell_values) > 4 THEN cell_values[5].text ELSE << >>,
         change_year_on_year |-> IF Len(cell_values) > 5 THEN cell_values[6].text ELSE << >>,
         datetime |-> parse_period_to_datetime(normalized_period),
         frequency |-> detect_frequency(normalized_period),
         dataset_id |-> generate_dataset_id(indicator_text, category)]

RECURSIVE parse_rows(_, _)
parse_rows(rows, category) ==
    IF rows = << >> THEN << >>
    ELSE (IF Len(Head(rows)) < MinCells THEN << >> ELSE <<parse_row(Head(rows), category)>>)
            \o parse_rows(Tail(rows), category)

\* _parse_table with rows[1:] written rows: the header row is parsed too
parse_table_keeps_header(tbl, category) ==
    IF Len(tbl.rows) < 2 THEN << >>
    ELSE parse_rows(tbl.rows, category)

parse_table(tbl, category) ==
    IF Len(tbl.rows) < 2 THEN << >>
    ELSE parse_rows(Tail(tbl.rows), category)

(***************************************************************************)
(* _scrape_category_table.  raised: an exception is thrown inside the try  *)
(* block (by the HTML library), which the handler turns into [].           *)
(***************************************************************************)
heading_positions(page, category) ==
    {i \in 1..Len(page) : page[i].kind = "heading" /\ mentions(page[i].text, category)}

table_positions(page) == {i \in 1..Len(page) : page[i].kind = "table"}

scrape_category_table(page, category, raised) ==
    IF raised THEN << >>
    ELSE LET headings == heading_positions(page, category)
         IN  IF headings = {}
             THEN LET found == {i \in table_positions(page) :
                                   mentions(table_get_text(page[i]), category)}
                  IN  IF found = {} THEN << >>
                      ELSE parse_table(page[SetMin(found)], category)
             ELSE LET after == {i \in table_positions(page) : i > SetMin(headings)}
                  IN  IF after = {} THEN << >>
                      ELSE parse_table(page[SetMin(after)], category)

(***************************************************************************)
(* scrape_key_indicators.  response is the outcome of session.get and      *)
(* raise_for_status; a DataFrame is the sequence of its rows, the empty    *)
(* DataFrame is << >>.                                                     *)
(***************************************************************************)
Responses == {"ok", "http_error", "timeout", "connection_error"}

\* the category loop with a break on the first category that yields nothing
RECURSIVE scrape_categories_break(_, _, _)
scrape_categories_break(page, faults, k) ==
    IF k > Len(categories) THEN << >>
    ELSE LET category_data == scrape_category_table(page, categories[k], k \in faults)
         IN  IF category_data = << >> THEN << >>
             ELSE category_data \o scrape_categories_break(page, faults, k + 1)

RECURSIVE scrape_categories(_, _, _)
scrape_categories(page, faults, k) ==
    IF k > Len(categories) THEN << >>
    ELSE scrape_category_table(page, categories[k], k \in faults)
            \o scrape_categories(page, faults, k + 1)

add_metadata(rec, scrape_date) ==
    [category |-> rec.category,
     indicator |-> rec.indicator,
     indicator_link |-> rec.indicator_link,
     period |-> rec.period,
     unit |-> rec.unit,
     value |-> rec.value,
     value_raw |-> rec.value_raw,
     change_previous_period |-> rec.change_previous_period,
     change_year_on_year |-> rec.change_year_on_year,
     datetime |-> rec.datetime,
     frequency |-> rec.frequency,
     dataset_id |-> rec.dataset_id,
     scrape_date |-> scrape_date,
     source |-> "ABS",
     source_url |-> "https://www.abs.gov.au/statistics/economy/key-indicators"]

\* session.get raises (timeout, connection error) or raise_for_status does
fetch_raises(resp) == resp /= "ok"

target_url == "https://www.abs.gov.au/statistics/economy/key-indicators"

\* scrape_key_indicators with the fetch made again after a failure
scrape_key_indicators_retrying(resp, pg, fl, scrape_date) ==
    IF fetch_raises(resp)
    THEN [df |-> << >>, raised |-> FALSE, requests |-> <<target_url, target_url>>]
    ELSE LET all_data == scrape_categories(pg, fl, 1)
         IN  [df |-> Seq_([i \in 1..Len(all_data) |-> add_metadata(all_data[i], scrape_date)]),
              raised |-> FALSE, requests |-> <<target_url>>]

\* scrape_key_indicators without its try/except: the exception of the fetch
\* leaves the method
scrape_key_indicators_uncaught(resp, pg, fl, scrape_date) ==
    IF fetch_raises(resp) THEN [df |-> << >>, raised |-> TRUE, requests |-> <<target_url>>]
    ELSE LET all_data == scrape_categories(pg, fl, 1)
         IN  [df |-> Seq_([i \in 1..Len(all_data) |-> add_metadata(all_data[i], scrape_date)]),
              raised |-> FALSE, requests |-> <<target_url>>]

\* the DataFrame returned, whether an exception leaves the method (the
\* handler "except Exception" returns the empty DataFrame), and the URLs the
\* call asked the session to GET: the one session.get before the category
\* loop, on a session that has no retry adapter mounted
scrape_key_indicators(resp, pg, fl, scrape_date) ==
    IF fetch_raises(resp) THEN [df |-> << >>, raised |-> FALSE, requests |-> <<target_url>>]
    ELSE LET all_data == scrape_categories(pg, fl, 1)
         IN  [df |-> Seq_([i \in 1..Len(all_data) |-> add_metadata(all_data[i], scrape_date)]),
              raised |-> FALSE, requests |-> <<target_url>>]

(***************************************************************************)
(* _validate_data                                                          *)
(***************************************************************************)
required_cols == {"category", "indicator", "period", "value"}

df_columns(df) == IF df = << >> THEN {} ELSE DOMAIN df[1]

\* pandas notna: None and NaN are both missing
notna(v) == v.kind \notin {"null", "nan"}

valid_values(df) == Cardinality({i \in 1..Len(df) : notna(df[i].value)})

\* _validate_data with the threshold test written <=
validate_data_strict(df) ==
    IF df = << >> THEN FALSE
    ELSE IF ~(required_cols \subseteq df_columns(df)) THEN FALSE
    ELSE IF 2 * valid_values(df) <= Len(df) THEN FALSE
    ELSE TRUE

validate_data(df) ==
    IF df = << >> THEN FALSE
    ELSE IF ~(required_cols \subseteq df_columns(df)) THEN FALSE
    ELSE IF 2 * valid_values(df) < Len(df) THEN FALSE
    ELSE TRUE

(***************************************************************************)
(* The output directory.  A timestamp is the reading of datetime.now() (a  *)
(* naive local time, which may repeat); a stored file is the DataFrame it  *)
(* holds, a file that does not exist is << >> (no empty frame is ever      *)
(* written).                                                               *)
(***************************************************************************)
\* the characters of the modelled texts in code point order, as Python
\* compares str
CodePoints ==
    <<
       "\t","\n"," ","!","#","$","%","&","'","(",")","*","+",",","-",
       ".","/","0","1","2","3","4","5","6","7","8","9",":",";","<","=",
       ">","?","@","A","B","C","D","E","F","G","H","I","J","K","L","M",
       "N","O","P","Q","R","S","T","U","V","W","X","Y","Z","[","]",
       "^","_","a","b","c","d","e","f","g","h","i","j","k","l","m",
       "n","o","p","q","r","s","t","u","v","w","x","y","z","{","|","}",
       "~",
       UnicodeMinus
    >>

OrdOf == [c \in {CodePoints[i] : i \in 1..Len(CodePoints)} |->
             CHOOSE i \in 1..Len(CodePoints) : CodePoints[i] = c]

ord(c) == OrdOf[c]

\* a < b for two str
RECURSIVE str_less(_, _)
str_less(a, b) ==
    IF b = << >> THEN FALSE
    ELSE IF a = << >> THEN TRUE
    ELSE IF Head(a) = Head(b) THEN str_less(Tail(a), Tail(b))
    ELSE ord(Head(a)) < ord(Head(b))

\* the sort key ['dataset_id', 'period', 'collection_date'] of sort_values
row_less(r1, r2) ==
    \/ str_less(r1.dataset_id, r2.dataset_id)
    \/ /\ r1.dataset_id = r2.dataset_id
       /\ \/ str_less(r1.period, r2.period)
          \/ r1.period = r2.period /\ r1.collection_date < r2.collection_date

\* DataFrame.sort_values on several columns: a stable sort
RECURSIVE sort_values(_)
sort_values(rows) ==
    IF rows = << >> THEN << >>
    ELSE LET rest == sort_values(SubSeq(rows, 1, Len(rows) - 1))
             last == rows[Len(rows)]
             before == {i \in 1..Len(rest) : ~row_less(last, rest[i])}
             k == IF before = {} THEN 0 ELSE SetMax(before)
         IN  SubSeq(rest, 1, k) \o <<last>> \o SubSeq(rest, k + 1, Len(rest))

\* current_df[[...]].copy() with the collection_date column added
current_historical(current_df, collection_timestamp) ==
    Seq_([i \in 1..Len(current_df) |->
        [dataset_id |-> current_df[i].dataset_id,
         category |-> current_df[i].category,
         indicator |-> current_df[i].indicator,
         period |-> current_df[i].period,
         value |-> current_df[i].value,
         unit |-> current_df[i].unit,
         datetime |-> current_df[i].datetime,
         frequency |-> current_df[i].frequency,
         scrape_date |-> current_df[i].scrape_date,
         collection_date |-> collection_timestamp]])

column(df, name) == {df[i][name] : i \in 1..Len(df)}

\* _update_historical_data without the read of the existing file: the file
\* is overwritten with the current rows
combine_historical_overwrite(historical_df, current_df, collection_timestamp) ==
    sort_values(current_historical(current_df, collection_timestamp))

\* _update_historical_data with the filter on dataset_id and period alone
combine_historical_any_date(historical_df, current_df, collection_timestamp) ==
    LET current == current_historical(current_df, collection_timestamp)
        dataset_ids_list == column(current, "dataset_id")
        periods_list == column(current, "period")
        Kept(h) == ~(/\ h.dataset_id \in dataset_ids_list
                     /\ h.period \in periods_list)
        combined_df == IF historical_df /= << >>
                       THEN SelectSeq(historical_df, Kept) \o current
                       ELSE current
    IN  sort_values(combined_df)

\* the de-duplication filter, the concat and the sort of _update_historical_data
combine_historical(historical_df, current_df, collection_timestamp) ==
    LET current == current_historical(current_df, collection_timestamp)
        dataset_ids_list == column(current, "dataset_id")
        periods_list == column(current, "period")
        Kept(h) == ~(/\ h.dataset_id \in dataset_ids_list
                     /\ h.period \in periods_list
                     /\ h.collection_date = collection_timestamp)
        combined_df == IF historical_df /= << >>
                       THEN SelectSeq(historical_df, Kept) \o current
                       ELSE current
    IN  sort_values(combined_df)

key_indicators ==
    << <<"g","d","p">>, <<"c","p","i">>,
       <<"u","n","e","m","p","l","o","y","_","r","a","t","e">>,
       <<"e","m","p","l","o","y","e","d">>, <<"r","e","t","a","i","l">> >>

\* _create_indicator_timeseries: the files it writes, by key indicator (the
\* order of the rows inside a file, sorted by datetime, is not modelled)
create_indicator_timeseries(timeseries, historical_df) ==
    [k \in 1..Len(key_indicators) |->
        LET matching_data == SelectSeq(historical_df,
                LAMBDA h : Contains(str_lower(h.dataset_id), key_indicators[k]))
        IN  IF matching_data /= << >> THEN matching_data ELSE timeseries[k]]

NoTimeseries == [k \in 1..Len(key_indicators) |-> << >>]

(***************************************************************************)
(* State                                                                   *)
(***************************************************************************)
VARIABLES
    period_text,    \* the text of a period cell handed to the row parser
    emitted,        \* the record the row parser emitted for it
    indicator_name, \* the text of an indicator cell handed to the row parser
    category_index, \* the position in categories of the category of its table
    named,          \* the records the row parser emitted for it, scrape by scrape
    value_text,     \* the text of a value cell handed to the row parser
    valued,         \* the record the row parser emitted for it
    table,          \* a table handed to _parse_table
    parsed,         \* whether _parse_table has returned
    records,        \* the records _parse_table returned for it
    pc,             \* where run() stands: "idle", "scraped", "validated"
    response,       \* the outcome of the page fetch of the current run
    page,           \* the document fetched by the current run
    faults,         \* the categories whose lookup raises in the current run
    escaped,        \* whether an exception left scrape_key_indicators
    requested,      \* the URLs the scrape of the run asked the session to GET
    updates,        \* the writes of the historical file so far: timestamp and batch
    df,             \* the DataFrame scrape_key_indicators returned
    steps,          \* the steps the current run() has taken, in order
    ret,            \* what the last run() returned: "none", "True", "False"
    runs,           \* the number of run() calls started
    now,            \* datetime.now()
    snapshots,      \* abs_key_indicators_<timestamp>.parquet, by timestamp
    latest,         \* abs_key_indicators_latest.parquet
    historical,     \* abs_historical_timeseries.parquet
    timeseries,     \* timeseries/<key>_timeseries.parquet, by key indicator
    spc,            \* where each concurrent save_data stands
    sdf,            \* the batch each concurrent save_data was called with
    sread,          \* the historical frame each concurrent save_data has read
    sts,            \* the collection timestamp each concurrent save_data took
    hlog,           \* the reads and writes of the historical file, in order
    config_loads,   \* orchestrator: whether load_config() returns
    module_outcomes,\* orchestrator: what each module function does when called
    opc,            \* orchestrator: where main() is
    called,         \* orchestrator: the modules called so far, in order
    results,        \* orchestrator: the results dict, in insertion order
    exit_status,    \* orchestrator: the exit status of the process
    sched_pc,       \* scheduler: where run_scheduler() is
    clock,          \* scheduler: the time, in polls of the loop
    next_run,       \* scheduler: when each job is next due
    job_log,        \* scheduler: the job functions run so far
    fred_api,       \* FRED collector: whether the API client was initialized
    indicators,     \* FRED collector: the category of each configured indicator
    fred_pc,        \* FRED collector: where run_collection() is
    fqueue,         \* FRED collector: the indicators still to collect
    stats,          \* FRED collector: self.stats
    collected,      \* FRED collector: what the last collect_indicator returned
    fresult         \* FRED collector: what run_collection returned

period_vars == <<period_text, emitted>>

name_vars == <<indicator_name, category_index, named>>

value_vars == <<value_text, valued>>

table_vars == <<table, parsed, records>>

run_vars == <<pc, response, page, faults, escaped, requested, df, steps, ret, runs, updates>>

file_vars == <<now, snapshots, latest, historical, timeseries>>

save_vars == <<spc, sdf, sread, sts, hlog>>

orch_vars == <<config_loads, module_outcomes, opc, called, results, exit_status>>

sched_vars == <<sched_pc, clock, next_run, job_log>>

fred_vars == <<fred_api, indicators, fred_pc, fqueue, stats, collected, fresult>>

collector_vars == <<orch_vars, sched_vars, fred_vars>>

scraper_vars ==
    <<period_vars, name_vars, value_vars, table_vars, run_vars, file_vars, save_vars>>

vars == <<scraper_vars, collector_vars>>

NoSnapshots == [t \in {} |-> << >>]

PeriodIdle == period_text = << >> /\ emitted = << >>

NameIdle == indicator_name = << >> /\ category_index = 1 /\ named = << >>

ValueIdle == value_text = << >> /\ valued = << >>

TableIdle ==
    /\ table = [kind |-> "table", text |-> << >>, rows |-> << >>]
    /\ parsed = FALSE
    /\ records = << >>

RunIdle ==
    /\ pc = "idle" /\ response = "none" /\ page = << >> /\ faults = {}
    /\ escaped = FALSE /\ requested = << >> /\ df = << >> /\ steps = << >>
    /\ ret = "none" /\ runs = 0 /\ updates = << >>

FilesEmpty ==
    /\ now = 0 /\ snapshots = NoSnapshots /\ latest = << >>
    /\ historical = << >> /\ timeseries = NoTimeseries

SaveIdle == spc = << >> /\ sdf = << >> /\ sread = << >> /\ sts = << >> /\ hlog = << >>

ScraperIdle ==
    PeriodIdle /\ NameIdle /\ ValueIdle /\ TableIdle /\ RunIdle /\ FilesEmpty /\ SaveIdle

OrchestratorIdle ==
    /\ config_loads = TRUE /\ module_outcomes = << >> /\ opc = "idle"
    /\ called = << >> /\ results = << >> /\ exit_status = "none"

SchedulerIdle ==
    sched_pc = "idle" /\ clock = 0 /\ next_run = << >> /\ job_log = << >>

FredIdle ==
    /\ fred_api = TRUE /\ indicators = << >> /\ fred_pc = "idle" /\ fqueue = << >>
    /\ stats = << >> /\ collected = "none" /\ fresult = "none"

CollectorsIdle == OrchestratorIdle /\ SchedulerIdle /\ FredIdle

(***************************************************************************)
(* Cells and rows of the modelled documents                                *)
(***************************************************************************)
Cell(t) == [text |-> t, link |-> << >>]

LinkCell(t, href) == [text |-> t, link |-> href]

(***************************************************************************)
(* The row parser on period cells: quarter, month and year texts in every  *)
(* letter case, with one to MaxSpaces whitespace characters between the    *)
(* tokens.                                                                 *)
(***************************************************************************)
MaxSpaces == 2

MonthAbbrs ==
    { 
      <<"J","a","n">>, <<"F","e","b">>, <<"M","a","r">>, <<"A","p","r">>,
      <<"M","a","y">>, <<"J","u","n">>, <<"J","u","l">>, <<"A","u","g">>,
      <<"S","e","p">>, <<"O","c","t">>, <<"N","o","v">>, <<"D","e","c">> }

LetterCases(s) == {s, str_lower(s), str_upper(s)}

QtrTokens == UNION {LetterCases(t) : t \in {<<"Q","t","r">>, <<"Q","u","a","r","t","e","r">>}}

Years == { <<"2","0","2","5">>, <<"1","9","9","9">> }

RECURSIVE Repeat(_, _)
Repeat(c, n) == IF n = 0 THEN << >> ELSE <<c>> \o Repeat(c, n - 1)

Gaps == {Repeat(" ", n) : n \in 1..MaxSpaces} \cup {<<"\t">>}

QuarterTexts ==
    {m \o g1 \o q \o g2 \o y :
        m \in UNION {LetterCases(a) : a \in MonthAbbrs},
        g1 \in Gaps, q \in QtrTokens, g2 \in Gaps, y \in Years}

MonthNames ==
    MonthAbbrs \cup
    { <<"J","a","n","u","a","r","y">>,
      <<"F","e","b","r","u","a","r","y">>,
      <<"M","a","r","c","h">>,
      <<"A","p","r","i","l">>,
      <<"M","a","y">>,
      <<"J","u","n","e">>,
      <<"J","u","l","y">>,
      <<"A","u","g","u","s","t">>,
      <<"S","e","p","t","e","m","b","e","r">>,
      <<"O","c","t","o","b","e","r">>,
      <<"N","o","v","e","m","b","e","r">>,
      <<"D","e","c","e","m","b","e","r">> }

MonthTexts == {m \o g \o y : m \in MonthNames, g \in Gaps, y \in Years}

\* texts of none of these forms, or nearly of one
OtherTexts ==
    { << >>,
      <<"W","e","e","k"," ","2","0","2","5">>,
      <<"F","Y"," ","2","0","2","5">>,
      <<"F","o","o"," ","Q","t","r"," ","2","0","2","5">>,
      <<"2","0","2","4"," ","2","0","2","5">>,
      <<"2","0","2","4","-","2","5">>,
      <<"2","0","2","4","5">>,
      <<"2","0","2">>,
      <<"A","n","n","u","a","l">>,
      <<"D","e","c","a","d","e"," ","2","0","2","0">>,
      <<"n","/","a">>,
      <<"m","a","y"," ","2","0","2","5">>,
      <<"S","e","p","t"," ","2","0","2","5">> }

PeriodTexts == QuarterTexts \cup MonthTexts \cup Years \cup OtherTexts

\* the row of a table whose period cell holds the text: the cell keeps the
\* whitespace the markup has around it
PeriodRow(text) ==
    << Cell(<<"C","P","I">>), Cell(<<" ">> \o text \o <<"\n">>), Cell(<<"%">>),
       Cell(<<"1">>), Cell(<<"2">>) >>

PeriodInit ==
    /\ period_text \in PeriodTexts
    /\ emitted = << >>
    /\ NameIdle /\ ValueIdle /\ TableIdle /\ RunIdle /\ FilesEmpty /\ SaveIdle
    /\ CollectorsIdle

\* _parse_table's loop body on the row of the period cell
ParsePeriodCell ==
    /\ emitted = << >>
    /\ emitted' = <<parse_row(PeriodRow(period_text), categories[5])>>
    /\ UNCHANGED <<period_text, name_vars, value_vars, collector_vars, table_vars, run_vars, file_vars, save_vars>>

PeriodNext == ParsePeriodCell

SpecPeriod == PeriodInit /\ [][PeriodNext]_vars

(***************************************************************************)
(* _parse_table on tables of up to MaxRows rows.  The row at position i    *)
(* names its indicator "r<i>", so that a record tells the row it came      *)
(* from; a row has MinCells - 1 or MinCells cells.                         *)
(***************************************************************************)
MaxRows == 11

IndexText(i) ==
    IF i < 10 THEN <<"r", DigitSeq[i + 1]>>
    ELSE <<"r", DigitSeq[(i \div 10) + 1], DigitSeq[(i % 10) + 1]>>

TableRow(i, ncells) ==
    SubSeq(<< Cell(IndexText(i)), Cell(<<"2","0","2","4">>), Cell(<<"%">>),
              Cell(<<"1">>), Cell(<<"0">>) >>, 1, ncells)

RowWidths == {MinCells - 1, MinCells}

Tables ==
    UNION { { [kind |-> "table", text |-> << >>,
               rows |-> [i \in 1..n |-> TableRow(i, w[i])]] :
              w \in [1..n -> RowWidths] } : n \in 0..MaxRows }

TableInit ==
    /\ table \in Tables
    /\ parsed = FALSE
    /\ records = << >>
    /\ PeriodIdle /\ NameIdle /\ ValueIdle /\ RunIdle /\ FilesEmpty /\ SaveIdle
    /\ CollectorsIdle

ParseTable ==
    /\ ~parsed
    /\ parsed' = TRUE
    /\ records' = parse_table(table, categories[5])
    /\ UNCHANGED <<table, period_vars, name_vars, value_vars, collector_vars, run_vars, file_vars, save_vars>>

TableNext == ParseTable

SpecTable == TableInit /\ [][TableNext]_vars

(***************************************************************************)
(* The row parser on indicator cells, in the tables of every category, on  *)
(* up to MaxScrapes scrapes of the same row.                               *)
(***************************************************************************)
MaxScrapes == 2

NameTexts ==
    {
      << >>,
      <<"C","P","I">>,
      <<"!","!","!">>,
      <<"P","o","p","u","l","a","t","i","o","n">>,
      <<"C","o","n","s","u","m","e","r"," ","p","r","i","c","e"," ","i","n","d","e","x">>,
      <<"C","o","n","s","u","m","e","r"," ","p","r","i","c","e"," ","i","n","d","e","x"," ","(","b",")">>,
      <<"G","r","o","s","s"," ","d","o","m","e","s","t","i","c"," ","p","r","o","d","u","c","t">>,
      <<"W","a","g","e"," ","p","r","i","c","e"," ","i","n","d","e","x">>,
      <<"E","m","p","l","o","y","e","d"," ","p","e","r","s","o","n","s",":"," ","u","n","e","m","p","l","o","y","m","e","n","t"," ","r","a","t","e">>,
      <<"V","a","l","u","e"," ","o","f"," ","e","x","p","o","r","t","s">>,
      <<"T","e","r","m","s"," ","o","f"," ","t","r","a","d","e">>,
      <<"H","o","u","s","e","h","o","l","d"," ","s","a","v","i","n","g"," ","r","a","t","i","o">>,
      <<"J","o","b"," ","v","a","c","a","n","c","i","e","s"," ","(","a",")">>,
      <<"A","v","e","r","a","g","e"," ","w","e","e","k","l","y"," ","e","a","r","n","i","n","g","s"," ","g","r","o","w","t","h">>,
      <<"T","e","l","e","c","o","m","m","u","n","i","c","a","t","i","o","n","s"," ","i","n","f","r","a","s","t","r","u","c","t","u","r","e"," ","c","h","a","r","a","c","t","e","r","i","s","t","i","c","s">> }

\* the row of a table whose indicator cell holds the text: the cell keeps
\* the whitespace the markup has around it
NameRow(text) ==
    << Cell(<<" ">> \o text \o <<"\n">>),
       Cell(<<"M","a","r"," ","Q","t","r"," ","2","0","2","5">>), Cell(<<"%">>),
       Cell(<<"1">>), Cell(<<"2">>) >>

NameInit ==
    /\ indicator_name \in NameTexts
    /\ category_index \in 1..Len(categories)
    /\ named = << >>
    /\ PeriodIdle /\ ValueIdle /\ TableIdle /\ RunIdle /\ FilesEmpty /\ SaveIdle
    /\ CollectorsIdle

\* _parse_table's loop body on the row of the indicator cell, once a scrape
ParseNameCell ==
    /\ Len(named) < MaxScrapes
    /\ named' = Append(named, parse_row(NameRow(indicator_name), categories[category_index]))
    /\ UNCHANGED <<indicator_name, category_index, period_vars, value_vars, collector_vars, table_vars,
                   run_vars, file_vars, save_vars>>

NameNext == ParseNameCell

SpecName == NameInit /\ [][NameNext]_vars

(***************************************************************************)
(* The documents the scraper is run on                                     *)
(***************************************************************************)
Heading(text) == [kind |-> "heading", text |-> text, rows |-> << >>]

DataTable(caption, rows) == [kind |-> "table", text |-> caption, rows |-> rows]

HeaderRow ==
    << Cell(<<"I","n","d","i","c","a","t","o","r">>),
       Cell(<<"P","e","r","i","o","d">>),
       Cell(<<"U","n","i","t">>),
       Cell(<<"V","a","l","u","e">>),
       Cell(<<"C","h","a","n","g","e">>) >>

RowCPI ==
    << LinkCell(<<"C","o","n","s","u","m","e","r"," ","p","r","i","c","e"," ","i","n","d","e","x">>,
                <<"/","c","p","i">>),
       Cell(<<"M","a","r"," ","Q","t","r"," ","2","0","2","5">>),
       Cell(<<"I","n","d","e","x">>),
       Cell(<<"1","3","4",".","5">>),
       Cell(<<"+","0",".","8","%">>),
       Cell(<<"+","2",".","1","%">>) >>

RowCPITrimmed ==
    << Cell(<<"C","o","n","s","u","m","e","r"," ","p","r","i","c","e"," ","i","n","d","e","x"," ","(","b",")">>),
       Cell(<<"M","a","r"," "," ","q","t","r"," "," ","2","0","2","5">>),
       Cell(<<"%">>),
       Cell(<<"n","a">>),
       Cell(<<"0",".","7">>) >>

RowWPI ==
    << Cell(<<"W","a","g","e"," ","p","r","i","c","e"," ","i","n","d","e","x">>),
       Cell(<<"M","a","r"," ","Q","t","r"," ","2","0","2","5">>),
       Cell(<<"%">>),
       Cell(<<"0",".","9">>) >>

RowGDP ==
    << Cell(<<"G","r","o","s","s"," ","d","o","m","e","s","t","i","c"," ","p","r","o","d","u","c","t">>),
       Cell(<<"D","e","c"," ","Q","t","r"," ","2","0","2","4">>),
       Cell(<<"$","m">>),
       Cell(<<"N","P">>),
       Cell(<<"0",".","6">>),
       Cell(<<"1",".","3">>) >>

RowBalance ==
    << Cell(<<"B","a","l","a","n","c","e"," ","o","n"," ","g","o","o","d","s">>),
       Cell(<<"M","a","y"," ","2","0","2","5">>),
       Cell(<<"$","m">>),
       Cell(<<"U+2212","2",",","0","0","0">>),
       Cell(<<"n","/","a">>) >>

HeadingPrices == Heading(<<"P","r","i","c","e","s">>)

HeadingInternational == Heading(<<"I","N","T","E","R","N","A","T","I","O","N","A","L"," ","A","C","C","O","U","N","T","S">>)

TablePrices == DataTable(<<"K","E","Y"," ","P","R","I","C","E","S">>, <<HeaderRow, RowCPI, RowCPITrimmed, RowWPI>>)

TableBalance == DataTable(<< >>, <<HeaderRow, RowBalance>>)

TableNational == DataTable(<<"N","a","t","i","o","n","a","l"," ","a","c","c","o","u","n","t","s">>, <<HeaderRow, RowGDP>>)

(***************************************************************************)
(* The row parser on value cells: numerals with their decorations (sign,   *)
(* currency sign, thousands commas, per cent sign, whitespace), the        *)
(* missing-data tokens, and texts that are neither.                        *)
(***************************************************************************)
Numerals ==
    { <<"5">>, <<"0">>, <<"2","0","0","0">>, <<"2",",","0","0","0">>, <<"1",",","2","3","4",".","5">>, <<"1","3","4",".","5">>, <<"0",".","7">>, <<"1","2",",","3","4","5",",","6","7","8">> }

Signs == { << >>, <<"-">>, <<UnicodeMinus>> }

OptionalSpace == { << >>, <<" ">> }

NumeralTexts ==
    {sg \o cur \o sp \o n \o pct :
        sg \in Signs, cur \in { << >>, <<"$">> }, sp \in OptionalSpace,
        n \in Numerals, pct \in { << >>, <<"%">>, <<" ","%">> }}
    \cup {<<"$">> \o sg \o n : sg \in Signs, n \in Numerals}

TokenTexts ==
    {t \o d : t \in missing_tokens, d \in { << >>, <<"%">>, <<",">>, <<" ","$">> }}

OtherValueTexts ==
    { << >>,
      <<"-">>,
      <<"$">>,
      <<"%">>,
      <<" ",","," ">>,
      <<"a","b","c">>,
      <<"1","2","a","b","c">>,
      <<"1",".","2",".","3">>,
      <<"N","A">>,
      <<"n","p">>,
      <<"N","/","A">>,
      <<".",".",".">>,
      <<"-","-","5">>,
      <<"1","e","3">>,
      <<"n","a","n">>,
      <<"i","n","f">>,
      <<"+","5">>,
      <<".","5">>,
      <<"5",".">>,
      <<"1","_","0","0","0">>,
      <<"n",".","a",".">>,
      <<"n","a"," ","n","a">> }

\* a cell's text as the markup holds it: bare, or with whitespace around it
ValueTexts ==
    {pad[1] \o t \o pad[2] :
        pad \in { << << >>, << >> >>, << <<"\n"," ">>, <<" ">> >> },
        t \in NumeralTexts \cup TokenTexts \cup OtherValueTexts}

\* a table whose only data row has the text in its value cell
ValueTable(text) ==
    DataTable(<< >>,
              << HeaderRow,
                 << Cell(<<"C","P","I">>), Cell(<<"2","0","2","5">>), Cell(<<"%">>),
                    Cell(text), Cell(<<"2">>) >> >>)

ValueInit ==
    /\ value_text \in ValueTexts
    /\ valued = << >>
    /\ PeriodIdle /\ NameIdle /\ TableIdle /\ RunIdle /\ FilesEmpty /\ SaveIdle
    /\ CollectorsIdle

\* _parse_table on the table of the value cell
ParseValueCell ==
    /\ valued = << >>
    /\ valued' = parse_table(ValueTable(value_text), categories[5])
    /\ UNCHANGED <<value_text, period_vars, name_vars, table_vars, collector_vars,
                   run_vars, file_vars, save_vars>>

ValueNext == ParseValueCell

SpecValue == ValueInit /\ [][ValueNext]_vars

PageElements == {HeadingPrices, HeadingInternational, TablePrices, TableBalance, TableNational}

MaxPageLen == 3

ScrapePages == UNION { [1..n -> PageElements] : n \in 0..MaxPageLen }

RunPages == { << >>, <<HeadingInternational, TableBalance>>, <<TablePrices>>, <<TableNational>> }

\* the categories whose lookup may raise: none, or one of them
FaultSets == { {}, {1}, {5} }

(***************************************************************************)
(* save_data and _update_historical_data on the output directory           *)
(*   files == [snapshots, latest, historical, timeseries]                  *)
(* fault names the file operation that raises during the call, if any.     *)
(***************************************************************************)
IOFaults == {"none", "snapshot", "historical", "timeseries", "latest"}

write_snapshot(snaps, timestamp, frame) ==
    [t \in (DOMAIN snaps) \cup {timestamp} |-> IF t = timestamp THEN frame ELSE snaps[t]]

\* _update_historical_data: an exception is logged and swallowed
update_historical_data(files, current_df, collection_timestamp, fault) ==
    IF fault = "historical" THEN files
    ELSE LET combined_df == combine_historical(files.historical, current_df, collection_timestamp)
         IN  [files EXCEPT
                 !.historical = combined_df,
                 !.timeseries = IF fault = "timeseries" THEN @
                                ELSE create_indicator_timeseries(@, combined_df)]

\* whether save_data got as far as combined_df.to_parquet(historical_file)
historical_written(frame, fault) ==
    frame /= << >> /\ fault \notin {"snapshot", "historical"}

\* save_data with the latest file extended instead of rewritten
save_data_appends(files, frame, timestamp, fault) ==
    IF frame = << >> THEN [files |-> files, ret |-> FALSE]
    ELSE IF fault = "snapshot" THEN [files |-> files, ret |-> FALSE]
    ELSE LET saved == [files EXCEPT !.snapshots = write_snapshot(@, timestamp, frame)]
             tracked == update_historical_data(saved, frame, timestamp, fault)
         IN  IF fault = "latest" THEN [files |-> tracked, ret |-> FALSE]
             ELSE [files |-> [tracked EXCEPT !.latest = @ \o frame], ret |-> TRUE]

\* save_data: the files after the call and the value returned
save_data(files, frame, timestamp, fault) ==
    IF frame = << >> THEN [files |-> files, ret |-> FALSE]
    ELSE IF fault = "snapshot" THEN [files |-> files, ret |-> FALSE]
    ELSE LET saved == [files EXCEPT !.snapshots = write_snapshot(@, timestamp, frame)]
             tracked == update_historical_data(saved, frame, timestamp, fault)
         IN  IF fault = "latest" THEN [files |-> tracked, ret |-> FALSE]
             ELSE [files |-> [tracked EXCEPT !.latest = frame], ret |-> TRUE]

(***************************************************************************)
(* run(): scrape, validate, save.  Each step is one action; a step that    *)
(* makes run() return sets ret and brings pc back to "idle"; an exception  *)
(* inside run() is caught there and makes it return False.                 *)
(***************************************************************************)
MaxRuns == 2

MaxTime == 1

PyBool(b) == IF b THEN "True" ELSE "False"

Files == [snapshots |-> snapshots, latest |-> latest,
          historical |-> historical, timeseries |-> timeseries]

\* run() after df = self.scrape_key_indicators(): "if df.empty: return False"
after_scrape(frame) == IF frame = << >> THEN "idle" ELSE "scraped"

\* run() without the test of the validation result
after_validate_always(frame) == "validated"

\* run() after self._validate_data(df): "if not ...: return False"
after_validate(frame) == IF validate_data(frame) THEN "validated" ELSE "idle"

\* run() up to its first return: the page is fetched at time t
RunScrape(resp, pg, fl, t) ==
    /\ pc = "idle"
    /\ runs < MaxRuns
    /\ resp = "ok" \/ (pg = << >> /\ fl = {})
    /\ now' = t
    /\ response' = resp
    /\ page' = pg
    /\ faults' = fl
    /\ runs' = runs + 1
    /\ LET scraped == scrape_key_indicators(resp, pg, fl, t)
       IN  /\ escaped' = scraped.raised
           /\ requested' = scraped.requests
           /\ df' = scraped.df
           /\ pc' = IF scraped.raised THEN "idle" ELSE after_scrape(scraped.df)
    /\ steps' = <<"scrape">>
    /\ ret' = IF pc' = "idle" THEN "False" ELSE "none"
    /\ UNCHANGED <<period_vars, name_vars, value_vars, collector_vars, table_vars, save_vars,
                   snapshots, latest, historical, timeseries, updates>>

RunValidate ==
    /\ pc = "scraped"
    /\ pc' = after_validate(df)
    /\ steps' = Append(steps, "validate")
    /\ ret' = IF pc' = "idle" THEN "False" ELSE "none"
    /\ UNCHANGED <<response, page, faults, escaped, requested, df, runs, updates>>
    /\ UNCHANGED <<period_vars, name_vars, value_vars, collector_vars, table_vars, file_vars, save_vars>>

RunSave(fault) ==
    /\ pc = "validated"
    /\ LET saved == save_data(Files, df, now, fault)
       IN  /\ snapshots' = saved.files.snapshots
           /\ latest' = saved.files.latest
           /\ historical' = saved.files.historical
           /\ timeseries' = saved.files.timeseries
           /\ ret' = PyBool(saved.ret)
    /\ pc' = "idle"
    /\ steps' = Append(steps, "save")
    /\ updates' = IF historical_written(df, fault)
                   THEN Append(updates, [collection_date |-> now, batch |-> df])
                   ELSE updates
    /\ UNCHANGED <<response, page, faults, escaped, requested, df, runs, now>>
    /\ UNCHANGED <<period_vars, name_vars, value_vars, collector_vars, table_vars, save_vars>>

Init == ScraperIdle /\ CollectorsIdle

RunResponses == {"ok", "timeout"}

Next ==
    \/ \E resp \in RunResponses, pg \in RunPages, t \in {now, now + 1} :
          RunScrape(resp, pg, {}, t)
    \/ RunValidate
    \/ \E fault \in IOFaults : RunSave(fault)

Spec == Init /\ [][Next]_vars

(***************************************************************************)
(* scrape_key_indicators, and run() up to its first return, on every page  *)
(* of up to MaxPageLen elements: the site answers with response and page,  *)
(* the lookups of the categories in faults raise.                          *)
(***************************************************************************)
ScrapeInit ==
    /\ response \in Responses
    /\ page \in ScrapePages
    /\ faults \in FaultSets
    /\ response = "ok" \/ (page = << >> /\ faults = {})
    /\ pc = "idle" /\ escaped = FALSE /\ requested = << >> /\ df = << >> /\ steps = << >>
    /\ ret = "none" /\ runs = 0 /\ updates = << >>
    /\ PeriodIdle /\ NameIdle /\ ValueIdle /\ TableIdle /\ FilesEmpty /\ SaveIdle
    /\ CollectorsIdle

ScrapeNext == runs = 0 /\ RunScrape(response, page, faults, now)

SpecScrape == ScrapeInit /\ [][ScrapeNext]_vars

(***************************************************************************)
(* Two scraper processes saving into the same output directory.  Each      *)
(* runs save_data on the batch it scraped; its steps are the file          *)
(* operations of save_data and _update_historical_data, which nothing      *)
(* makes atomic: the snapshot write, the read of the historical file, the  *)
(* write of the merged historical file (with the time series files), and   *)
(* the write of the latest snapshot.                                       *)
(***************************************************************************)
Savers == {1, 2}

\* the batches of the runs: what the validation gate accepts of RunPages
SaveBatches ==
    {b \in {scrape_key_indicators("ok", pg, {}, 0).df : pg \in RunPages} : validate_data(b)}

SaveInit ==
    /\ spc = [p \in Savers |-> "start"]
    /\ sdf \in [Savers -> SaveBatches]
    /\ sread = [p \in Savers |-> << >>]
    /\ sts = [p \in Savers |-> 0]
    /\ hlog = << >>
    /\ PeriodIdle /\ NameIdle /\ ValueIdle /\ TableIdle /\ RunIdle /\ FilesEmpty
    /\ CollectorsIdle

Tick ==
    /\ now < MaxTime
    /\ now' = now + 1
    /\ UNCHANGED <<period_vars, name_vars, value_vars, collector_vars, table_vars, run_vars, save_vars,
                   snapshots, latest, historical, timeseries>>

\* df.to_parquet(filepath)
SaveSnapshot(p) ==
    /\ spc[p] = "start"
    /\ snapshots' = write_snapshot(snapshots, now, sdf[p])
    /\ spc' = [spc EXCEPT ![p] = "snapshot"]
    /\ UNCHANGED <<period_vars, name_vars, value_vars, collector_vars, table_vars, run_vars, now, latest, historical,
                   timeseries, sdf, sread, sts, hlog>>

\* pd.read_parquet(historical_file), and collection_timestamp = datetime.now()
SaveReadHistorical(p) ==
    /\ spc[p] = "snapshot"
    /\ sread' = [sread EXCEPT ![p] = historical]
    /\ sts' = [sts EXCEPT ![p] = now]
    /\ hlog' = Append(hlog, [who |-> p, op |-> "read"])
    /\ spc' = [spc EXCEPT ![p] = "read"]
    /\ UNCHANGED <<period_vars, name_vars, value_vars, collector_vars, table_vars, run_vars, file_vars, sdf>>

\* combined_df.to_parquet(historical_file) and _create_indicator_timeseries
SaveWriteHistorical(p) ==
    /\ spc[p] = "read"
    /\ LET combined_df == combine_historical(sread[p], sdf[p], sts[p])
       IN  /\ historical' = combined_df
           /\ timeseries' = create_indicator_timeseries(timeseries, combined_df)
    /\ hlog' = Append(hlog, [who |-> p, op |-> "write"])
    /\ spc' = [spc EXCEPT ![p] = "written"]
    /\ UNCHANGED <<period_vars, name_vars, value_vars, collector_vars, table_vars, run_vars, now, snapshots, latest,
                   sdf, sread, sts>>

\* df.to_parquet(latest_filepath); return True
SaveLatest(p) ==
    /\ spc[p] = "written"
    /\ latest' = sdf[p]
    /\ spc' = [spc EXCEPT ![p] = "done"]
    /\ UNCHANGED <<period_vars, name_vars, value_vars, collector_vars, table_vars, run_vars, now, snapshots, historical,
                   timeseries, sdf, sread, sts, hlog>>

SaveNext ==
    \/ Tick
    \/ \E p \in Savers : SaveSnapshot(p)
    \/ \E p \in Savers : SaveReadHistorical(p)
    \/ \E p \in Savers : SaveWriteHistorical(p)
    \/ \E p \in Savers : SaveLatest(p)

SpecSave == SaveInit /\ [][SaveNext]_vars

(***************************************************************************)
(* orchestrator.py.  A module function either returns or raises an         *)
(* Exception, named by its class; the results dict is the sequence of its  *)
(* entries in insertion order (the module names are distinct).  main()     *)
(* ends by returning, by sys.exit(1), or with the exception load_config    *)
(* raised.                                                                 *)
(***************************************************************************)
collection_modules == <<"OHLCV Data", "Macro Data", "Fundamentals", "Events">>

ModuleOutcomes == {"returns", "ConnectionError", "KeyError"}

\* run_collection_module without its try/except: the exception of the
\* module leaves the function
run_collection_module_uncaught(module_name, outcome) ==
    [module |-> module_name,
     status |-> IF outcome = "returns" THEN "success" ELSE "error",
     error |-> IF outcome = "returns" THEN "None" ELSE outcome,
     propagates |-> outcome /= "returns"]

\* the entry of the results dict, and whether an exception leaves the call
run_collection_module(module_name, outcome) ==
    [module |-> module_name,
     status |-> IF outcome = "returns" THEN "success" ELSE "error",
     error |-> IF outcome = "returns" THEN "None" ELSE outcome,
     propagates |-> FALSE]

\* sum(1 for r in results.values() if r['status'] == 'error')
failed_count(res) == Cardinality({k \in 1..Len(res) : res[k].status = "error"})

\* how main() ends once the loop is over
main_exit(res) == IF failed_count(res) > 0 THEN "SystemExit" ELSE "returns"

\* the loop over collection_modules from the k-th module on
RECURSIVE run_modules(_, _)
run_modules(outcomes, k) ==
    IF k > Len(collection_modules) THEN << >>
    ELSE LET result == run_collection_module(collection_modules[k], outcomes[k])
         IN  IF result.propagates THEN <<result>>
             ELSE <<result>> \o run_modules(outcomes, k + 1)

\* how a call of main() ends
orchestrator_main(loads, outcomes) ==
    IF ~loads THEN "Exception"
    ELSE LET res == run_modules(outcomes, 1)
         IN  IF \E k \in 1..Len(res) : res[k].propagates THEN "Exception"
             ELSE main_exit(res)

\* the exit status of the interpreter for the way main() ended
process_exit(ending) == IF ending = "returns" THEN "0" ELSE "1"

OrchestratorInit ==
    /\ config_loads \in BOOLEAN
    /\ module_outcomes \in [1..Len(collection_modules) -> ModuleOutcomes]
    /\ opc = "start"
    /\ called = << >>
    /\ results = << >>
    /\ exit_status = "none"
    /\ ScraperIdle /\ SchedulerIdle /\ FredIdle

\* setup_logging(), load_config()
OrchestratorStart ==
    /\ opc = "start"
    /\ opc' = IF config_loads THEN "modules" ELSE "exited"
    /\ exit_status' = IF config_loads THEN exit_status ELSE process_exit("Exception")
    /\ UNCHANGED <<config_loads, module_outcomes, called, results>>
    /\ UNCHANGED <<scraper_vars, sched_vars, fred_vars>>

\* one iteration of "for module_name, module_func in collection_modules.items()"
OrchestratorRunModule ==
    /\ opc = "modules"
    /\ Len(called) < Len(collection_modules)
    /\ LET k == Len(called) + 1
           result == run_collection_module(collection_modules[k], module_outcomes[k])
       IN  /\ called' = Append(called, collection_modules[k])
           /\ results' = IF result.propagates THEN results ELSE Append(results, result)
           /\ opc' = IF result.propagates THEN "exited" ELSE opc
           /\ exit_status' = IF result.propagates THEN process_exit("Exception")
                             ELSE exit_status
    /\ UNCHANGED <<config_loads, module_outcomes>>
    /\ UNCHANGED <<scraper_vars, sched_vars, fred_vars>>

\* the report, and "if failed_count > 0: sys.exit(1)"
OrchestratorFinish ==
    /\ opc = "modules"
    /\ Len(called) = Len(collection_modules)
    /\ opc' = "exited"
    /\ exit_status' = process_exit(main_exit(results))
    /\ UNCHANGED <<config_loads, module_outcomes, called, results>>
    /\ UNCHANGED <<scraper_vars, sched_vars, fred_vars>>

OrchestratorNext == OrchestratorStart \/ OrchestratorRunModule \/ OrchestratorFinish

SpecOrchestrator == OrchestratorInit /\ [][OrchestratorNext]_vars

(***************************************************************************)
(* scheduler.py with the default schedule: the daily data collection and   *)
(* the daily quality check.  Time is counted in polls of the loop (one     *)
(* poll a minute); a job is due when its next run is not after the clock,  *)
(* run_pending runs the due jobs by next run and schedules each again      *)
(* after it returned; an exception of a job function leaves run_pending.   *)
(***************************************************************************)
jobs == <<"run_data_collection", "run_quality_check">>

MaxFirstRun == 2

DayTicks == 2

MaxTicks == 3

\* how a call of main() of a module that does not call sys.exit ends
QualityEndings == {"returns", "Exception"}

\* the module outcomes of a scheduled collection: all modules return, or one
\* of them raises
ScheduledOutcomes ==
    { [k \in 1..Len(collection_modules) |-> "returns"],
      [k \in 1..Len(collection_modules) |-> IF k = 2 THEN "ConnectionError" ELSE "returns"] }

\* what leaves run_data_collection: "except Exception" catches the
\* exceptions that derive from Exception, which SystemExit does not
run_data_collection(ending) ==
    IF ending \in {"returns", "Exception"} THEN "returns" ELSE ending

run_quality_check(ending) ==
    IF ending \in {"returns", "Exception"} THEN "returns" ELSE ending

run_job(j, endings) ==
    IF jobs[j] = "run_data_collection" THEN run_data_collection(endings[j])
    ELSE run_quality_check(endings[j])

\* the due jobs, by next run and then by registration
RECURSIVE sorted_due(_, _)
sorted_due(due, nr) ==
    IF due = {} THEN << >>
    ELSE LET first == CHOOSE j \in due :
                         \A i \in due : nr[j] < nr[i] \/ (nr[j] = nr[i] /\ j <= i)
         IN  <<first>> \o sorted_due(due \ {first}, nr)

\* schedule.run_pending() on the due jobs in order: the schedule and the log
\* after it, and what was raised out of it
RECURSIVE run_pending(_, _, _, _, _)
run_pending(due, time, nr, log, endings) ==
    IF due = << >> THEN [next_run |-> nr, log |-> log, raised |-> "none"]
    ELSE LET j == Head(due)
             left == run_job(j, endings)
             logged == Append(log, [job |-> jobs[j], at |-> time, ending |-> endings[j]])
         IN  IF left /= "returns"
             THEN [next_run |-> nr, log |-> logged, raised |-> left]
             ELSE run_pending(Tail(due), time, [nr EXCEPT ![j] = time + DayTicks],
                              logged, endings)

\* the state run_scheduler is in after something was raised inside its loop
\* or by the collection on startup: only KeyboardInterrupt and Exception
\* are handled
after_raise(raised) == IF raised = "none" THEN "polling" ELSE "exited"

SchedulerInit ==
    /\ sched_pc \in {"startup", "polling"}
    /\ clock = 0
    /\ next_run \in [1..Len(jobs) -> 1..MaxFirstRun]
    /\ job_log = << >>
    /\ ScraperIdle /\ OrchestratorIdle /\ FredIdle

\* "if schedule_config.get('run_on_startup', False): run_data_collection()"
SchedulerStartup(loads, outcomes) ==
    /\ sched_pc = "startup"
    /\ LET ending == orchestrator_main(loads, outcomes)
           left == run_data_collection(ending)
       IN  /\ job_log' = Append(job_log, [job |-> jobs[1], at |-> clock, ending |-> ending])
           /\ sched_pc' = after_raise(IF left = "returns" THEN "none" ELSE left)
    /\ UNCHANGED <<clock, next_run>>
    /\ UNCHANGED <<scraper_vars, orch_vars, fred_vars>>

\* one iteration of "while True: schedule.run_pending(); time.sleep(60)"
SchedulerPoll(loads, outcomes, quality) ==
    /\ sched_pc = "polling"
    /\ clock <= MaxTicks
    /\ LET endings == <<orchestrator_main(loads, outcomes), quality>>
           due == sorted_due({j \in 1..Len(jobs) : next_run[j] <= clock}, next_run)
           ran == run_pending(due, clock, next_run, job_log, endings)
       IN  /\ next_run' = ran.next_run
           /\ job_log' = ran.log
           /\ sched_pc' = after_raise(ran.raised)
           /\ clock' = IF ran.raised = "none" THEN clock + 1 ELSE clock
    /\ UNCHANGED <<scraper_vars, orch_vars, fred_vars>>

SchedulerStep ==
    \/ \E loads \in BOOLEAN, outcomes \in ScheduledOutcomes :
          SchedulerStartup(loads, outcomes)
    \/ \E loads \in BOOLEAN, outcomes \in ScheduledOutcomes, quality \in QualityEndings :
          SchedulerPoll(loads, outcomes, quality)

\* the process runs its loop for as long as it lives
SpecScheduler == SchedulerInit /\ [][SchedulerStep]_vars /\ WF_vars(SchedulerStep)

(***************************************************************************)
(* fred_economic_data.py: FREDCollector.collect_indicator and              *)
(* run_collection.  An indicator is its category; what the fetch, the      *)
(* validation, the quality analysis and the save of an indicator do is an  *)
(* input of its collection.                                                *)
(***************************************************************************)
MaxIndicators == 3

FredCategories == {"general", "cn_macro"}

FetchOutcomes == {"data", "None", "empty", "raises"}

ValidateOutcomes == {"valid", "empty", "raises"}

QualityOutcomes == {"analysed", "raises"}

SaveOutcomes == {"True", "False", "raises"}

\* 'cn_' in indicator_config.get('category', '')
is_chinese(category) == category = "cn_macro"

succeeded(st) ==
    [stats |-> [st EXCEPT !.successful_collections = @ + 1], ret |-> "True"]

failed(st) ==
    [stats |-> [st EXCEPT !.failed_collections = @ + 1], ret |-> "False"]

\* collect_indicator with the return after a failed save of unvalidated data
\* taken before the counter is touched
collect_indicator_uncounted(st, category, fetch, validate, quality, save) ==
    IF fetch = "raises" THEN failed(st)
    ELSE IF fetch \in {"None", "empty"} THEN failed(st)
    ELSE IF validate = "raises" THEN failed(st)
    ELSE IF validate = "empty"
         THEN IF is_chinese(category)
              THEN (IF save = "raises" THEN failed(st)
                    ELSE IF save = "True" THEN succeeded(st)
                    ELSE [stats |-> st, ret |-> "False"])
              ELSE failed(st)
    ELSE IF quality = "raises" THEN failed(st)
    ELSE IF save = "raises" THEN failed(st)
    ELSE IF save = "True" THEN succeeded(st)
    ELSE failed(st)

\* collect_indicator: self.stats after the call and the value returned; an
\* exception inside the try block is counted as a failure by the handler
collect_indicator(st, category, fetch, validate, quality, save) ==
    IF fetch = "raises" THEN failed(st)
    ELSE IF fetch \in {"None", "empty"} THEN failed(st)
    ELSE IF validate = "raises" THEN failed(st)
    ELSE IF validate = "empty"
         THEN IF is_chinese(category)
              THEN (IF save = "raises" THEN failed(st)
                    ELSE IF save = "True" THEN succeeded(st)
                    ELSE failed(st))
              ELSE failed(st)
    ELSE IF quality = "raises" THEN failed(st)
    ELSE IF save = "raises" THEN failed(st)
    ELSE IF save = "True" THEN succeeded(st)
    ELSE failed(st)

\* the categories dict of run_collection, flattened: the indicators by
\* category, the categories in the order of their first indicator
RECURSIVE by_category(_)
by_category(inds) ==
    IF inds = << >> THEN << >>
    ELSE SelectSeq(inds, LAMBDA c : c = Head(inds))
            \o by_category(SelectSeq(inds, LAMBDA c : c /= Head(inds)))

success_threshold == 80

\* (successful_collections / total_indicators) * 100 > 80
success_rate_passes(st) ==
    st.successful_collections * 100 > success_threshold * st.total_indicators

FredInit ==
    /\ fred_api \in BOOLEAN
    /\ indicators \in UNION { [1..n -> FredCategories] : n \in 0..MaxIndicators }
    /\ fred_pc = "new"
    /\ fqueue = << >>
    /\ stats = [total_indicators |-> 0, successful_collections |-> 0,
                failed_collections |-> 0]
    /\ collected = "none"
    /\ fresult = "none"
    /\ ScraperIdle /\ OrchestratorIdle /\ SchedulerIdle

\* run_collection up to the collection loop
FredStart ==
    /\ fred_pc = "new"
    /\ IF ~fred_api \/ indicators = << >>
       THEN /\ fred_pc' = "done"
            /\ fresult' = "False"
            /\ UNCHANGED <<stats, fqueue>>
       ELSE /\ fred_pc' = "collecting"
            /\ stats' = [stats EXCEPT !.total_indicators = Len(indicators)]
            /\ fqueue' = by_category(indicators)
            /\ UNCHANGED fresult
    /\ UNCHANGED <<fred_api, indicators, collected>>
    /\ UNCHANGED <<scraper_vars, orch_vars, sched_vars>>

\* self.collect_indicator(indicator_config) in the collection loop
FredCollect(fetch, validate, quality, save) ==
    /\ fred_pc = "collecting"
    /\ fqueue /= << >>
    /\ LET done == collect_indicator(stats, Head(fqueue), fetch, validate, quality, save)
       IN  /\ stats' = done.stats
           /\ collected' = done.ret
    /\ fqueue' = Tail(fqueue)
    /\ UNCHANGED <<fred_api, indicators, fred_pc, fresult>>
    /\ UNCHANGED <<scraper_vars, orch_vars, sched_vars>>

\* the summary and "return success_rate > 80"
FredFinish ==
    /\ fred_pc = "collecting"
    /\ fqueue = << >>
    /\ fred_pc' = "done"
    /\ fresult' = IF success_rate_passes(stats) THEN "True" ELSE "False"
    /\ UNCHANGED <<fred_api, indicators, fqueue, stats, collected>>
    /\ UNCHANGED <<scraper_vars, orch_vars, sched_vars>>

FredNext ==
    \/ FredStart
    \/ \E fetch \in FetchOutcomes, validate \in ValidateOutcomes,
          quality \in QualityOutcomes, save \in SaveOutcomes :
          FredCollect(fetch, validate, quality, save)
    \/ FredFinish

SpecFred == FredInit /\ [][FredNext]_vars

(***************************************************************************)
(* Period texts                                                            *)
(***************************************************************************)
QuarterMonths ==
    << <<"m","a","r">>, <<"j","u","n">>, <<"s","e","p">>, <<"d","e","c">> >>

QuarterMonthNumbers == << <<"0","3">>, <<"0","6">>, <<"0","9">>, <<"1","2">> >>

\* text reads <quarter month> Qtr <year>: three letters, whitespace, the
\* letters q t r, whitespace, four digits, the letters in any case
IsQuarterPeriodText(text) ==
    LET n == Len(text)
    IN  /\ n >= 13
        /\ \E k \in 1..Len(QuarterMonths) : str_lower(SubSeq(text, 1, 3)) = QuarterMonths[k]
        /\ IsSpace(text[4])
        /\ IsSpace(text[n - 4])
        /\ \A i \in (n - 3)..n : IsDigit(text[i])
        /\ str_lower(str_strip(SubSeq(text, 4, n - 4))) = <<"q","t","r">>

QuarterDateOf(text) ==
    LET k == CHOOSE k \in 1..Len(QuarterMonths) :
                 str_lower(SubSeq(text, 1, 3)) = QuarterMonths[k]
    IN  SubSeq(text, Len(text) - 3, Len(text)) \o <<"-">> \o QuarterMonthNumbers[k]
            \o <<"-","0","1","T","0","0",":","0","0",":","0","0">>

\* C1: every period text "<Mar|Jun|Sep|Dec> Qtr <year>", in any letter case
\* and with any whitespace between the tokens, gives a record of quarterly
\* frequency dated the first day of month 03, 06, 09 or 12 of that year,
\* the month the quarter map gives for the abbreviation.
C1_QuarterTextIsQuarterDate ==
    (emitted /= << >> /\ IsQuarterPeriodText(period_text)) =>
        /\ emitted[1].frequency = "quarterly"
        /\ emitted[1].datetime = QuarterDateOf(period_text)

(***************************************************************************)
(* Tables                                                                  *)
(***************************************************************************)
\* the positions of the rows after the header that have five cells or more
WideRows(tbl) == {i \in 2..Len(tbl.rows) : Len(tbl.rows[i]) >= 5}

\* the j-th of the positions, counted from 1
NthOf(S, j) == CHOOSE i \in S : Cardinality({x \in S : x < i}) = j - 1

\* C2: _parse_table returns one record for each row after the header row
\* that has at least 5 cells, in the order of the rows, and nothing for a
\* narrower row; a table of fewer than 2 rows gives no record.
C2_OneRecordPerWideRow ==
    parsed =>
        /\ Len(records) = Cardinality(WideRows(table))
        /\ \A j \in 1..Len(records) :
              records[j].indicator = IndexText(NthOf(WideRows(table), j))
        /\ (Len(table.rows) < 2 => records = << >>)

\* a table of a header and 10 rows, 3 of them of fewer than 5 cells, has
\* been parsed into 7 records
C2_TenRowsThreeNarrow ==
    /\ parsed
    /\ Len(table.rows) = 11
    /\ Cardinality({i \in 2..11 : Len(table.rows[i]) < 5}) = 3
    /\ Len(records) = 7

(***************************************************************************)
(* The scrape of a page                                                    *)
(***************************************************************************)
\* the run has made its scrape
Scraped == runs > 0 /\ steps /= << >>

\* text contains the name of the category, letter case aside
NamesCategory(text, category) == Contains(str_lower(text), str_lower(category))

NamingHeadings(pg, category) ==
    {i \in 1..Len(pg) : pg[i].kind = "heading" /\ NamesCategory(pg[i].text, category)}

NamingTables(pg, category) ==
    {i \in 1..Len(pg) : pg[i].kind = "table"
                          /\ NamesCategory(table_get_text(pg[i]), category)}

TablesAfter(pg, i) == {j \in (i + 1)..Len(pg) : pg[j].kind = "table"}

\* the heading strategy gives no table: no heading names the category, or
\* no table follows the first heading that does
HeadingStrategyEmpty(pg, category) ==
    \/ NamingHeadings(pg, category) = {}
    \/ TablesAfter(pg, SetMin(NamingHeadings(pg, category))) = {}

\* the position of the table the two strategies find for the category, 0
\* when they find none
FoundTable(pg, category) ==
    LET hs == NamingHeadings(pg, category)
        ts == IF hs = {} THEN NamingTables(pg, category) ELSE TablesAfter(pg, SetMin(hs))
    IN  IF ts = {} THEN 0 ELSE SetMin(ts)

\* a row of the result without the columns added to the whole frame
WithoutMetadata(r) ==
    [f \in (DOMAIN r) \ {"scrape_date", "source", "source_url"} |-> r[f]]

\* the rows of the scrape result that belong to the k-th category
CategoryRecords(k) ==
    LET rows == SelectSeq(df, LAMBDA r : r.category = categories[k])
    IN  Seq_([i \in 1..Len(rows) |-> WithoutMetadata(rows[i])])

CategoryIndex(category) == CHOOSE k \in 1..Len(categories) : categories[k] = category

\* C3: when the page fetch fails (error status, timeout, connection error)
\* scrape_key_indicators returns the empty result, no exception leaves it,
\* and run() returns False.
C3_FetchFailureGivesEmpty ==
    (Scraped /\ response /= "ok") =>
        /\ df = << >>
        /\ ~escaped
        /\ pc = "idle"
        /\ ret = "False"

\* a run whose fetch timed out has returned
C3_FetchTimedOut == Scraped /\ response = "timeout" /\ ret = "False"

\* C4: a category for which no table is found, or whose lookup raises,
\* contributes no record and does not stop the categories after it: the
\* result is, in the order of the category list, the records of the table
\* found for each category.
C4_ResultIsConcatenation ==
    (Scraped /\ response = "ok") =>
        /\ \A k \in 1..Len(categories) :
              CategoryRecords(k) =
                  IF k \in faults \/ FoundTable(page, categories[k]) = 0 THEN << >>
                  ELSE parse_table(page[FoundTable(page, categories[k])], categories[k])
        /\ \A i \in 1..Len(df) : \E k \in 1..Len(categories) : df[i].category = categories[k]
        /\ \A i, j \in 1..Len(df) :
              i < j => CategoryIndex(df[i].category) <= CategoryIndex(df[j].category)

\* the lookup of a category raised, a later category found no table, and
\* categories after both of them gave their records
C4_LaterCategoriesStillScraped ==
    /\ Scraped /\ response = "ok"
    /\ \E k1 \in faults : \E k2 \in (k1 + 1)..Len(categories) :
          /\ FoundTable(page, categories[k2]) = 0
          /\ \E k3 \in (k2 + 1)..Len(categories) : CategoryRecords(k3) /= << >>

\* C5: a category named by no heading but named inside a table yields the
\* records of the first table, in document order, whose text contains the
\* category name, letter case aside.
C5_FallbackTakesFirstNamingTable ==
    (Scraped /\ response = "ok") =>
        \A k \in (1..Len(categories)) \ faults :
            (NamingHeadings(page, categories[k]) = {} /\ NamingTables(page, categories[k]) /= {}) =>
                CategoryRecords(k) =
                    parse_table(page[SetMin(NamingTables(page, categories[k]))], categories[k])

\* a category named by no heading got its records from a table that names
\* it in other letter case and stands after a table that does not name it
C5_LabelOnlyInsideLaterTable ==
    /\ Scraped /\ response = "ok"
    /\ \E k \in (1..Len(categories)) \ faults :
          /\ NamingHeadings(page, categories[k]) = {}
          /\ NamingTables(page, categories[k]) /= {}
          /\ SetMin(NamingTables(page, categories[k])) > 1
          /\ page[1].kind = "table"
          /\ ~Contains(table_get_text(page[SetMin(NamingTables(page, categories[k]))]), categories[k])
          /\ CategoryRecords(k) /= << >>

\* C6: whenever the heading strategy gives no table for a category (no
\* heading names it, or no table follows the heading that does) and some
\* table's text contains the category name, the category gets the records
\* of the first such table.
C6_FallbackWheneverHeadingGivesNoTable ==
    (Scraped /\ response = "ok") =>
        \A k \in (1..Len(categories)) \ faults :
            (HeadingStrategyEmpty(page, categories[k]) /\ NamingTables(page, categories[k]) /= {}) =>
                CategoryRecords(k) =
                    parse_table(page[SetMin(NamingTables(page, categories[k]))], categories[k])

(***************************************************************************)
(* run(): the validation gate and the order of the steps                   *)
(***************************************************************************)
NonNullValues(frame) ==
    Cardinality({i \in 1..Len(frame) : frame[i].value.kind \notin {"null", "nan"}})

\* the batch is not empty, has the required columns, and half of its
\* records or more have a value
GateAccepts(frame) ==
    /\ frame /= << >>
    /\ {"category", "indicator", "period", "value"} \subseteq DOMAIN frame[1]
    /\ 2 * NonNullValues(frame) >= Len(frame)

AllSteps == <<"scrape", "validate", "save">>

\* C7: the validation gate accepts a batch exactly when the batch is not
\* empty, has the required columns, and at least 50% of its records have a
\* non-null value; a rejected batch makes run() return False.
C7_GateAcceptsIffHalfValid ==
    steps = <<"scrape", "validate">> =>
        /\ (pc = "validated") <=> GateAccepts(df)
        /\ (pc /= "validated") => (pc = "idle" /\ ret = "False")

\* the gate has accepted a batch of which exactly half the values are null
C7_ExactlyHalfAccepted ==
    /\ steps = <<"scrape", "validate">>
    /\ pc = "validated"
    /\ 2 * NonNullValues(df) = Len(df)

\* C8: a run() takes its steps in the order scrape, validate, save; a step
\* changes an output file only if it is the save step of a run whose scrape
\* gave a non-empty batch that the gate accepted; run() returns True only
\* from a save step that wrote the snapshot and the latest file.
C8_ScrapeValidateSave ==
    [][ /\ \E n \in 1..Len(AllSteps) : steps' = SubSeq(AllSteps, 1, n)
        /\ (Files' /= Files) =>
              (steps' = AllSteps /\ steps = <<"scrape", "validate">> /\ GateAccepts(df))
        /\ (ret' = "True") =>
              /\ steps' = AllSteps /\ steps = <<"scrape", "validate">>
              /\ GateAccepts(df)
              /\ now \in DOMAIN snapshots' /\ snapshots'[now] = df
              /\ latest' = df
      ]_vars

\* a run has gone through its three steps, written the files and returned
\* True
C8_RunSucceeded ==
    /\ steps = AllSteps
    /\ ret = "True"
    /\ latest = df
    /\ historical /= << >>

(***************************************************************************)
(* The historical file                                                     *)
(***************************************************************************)
HistoricalKey(h) == <<h.dataset_id, h.period, h.collection_date>>

\* C9: the historical file never holds two rows with the same dataset_id,
\* period and collection timestamp.
C9_NoTwoRowsWithSameKey ==
    \A i, j \in 1..Len(historical) :
        i < j => HistoricalKey(historical[i]) /= HistoricalKey(historical[j])

\* every record of the batch of saver p has its row, stamped with p's
\* collection timestamp, in the historical file
HasRowsOf(p) ==
    \A i \in 1..Len(sdf[p]) : \E j \in 1..Len(historical) :
        /\ HistoricalKey(historical[j]) = <<sdf[p][i].dataset_id, sdf[p][i].period, sts[p]>>
        /\ historical[j].value = sdf[p][i].value
        /\ historical[j].indicator = sdf[p][i].indicator

BothDone == \A p \in Savers : spc[p] = "done"

\* both savers read the historical file before either of them wrote it
Interleaved == Len(hlog) >= 2 /\ hlog[1].op = "read" /\ hlog[2].op = "read"

\* the savers do not hold the very same rows
DistinctRows == sdf[1] /= sdf[2] \/ sts[1] /= sts[2]

\* C10: two savers on the same directory lose rows exactly by interleaving
\* the read and the write of the historical file: when both have finished,
\* the file lacks the rows of one of them if and only if both read the file
\* before either wrote it (and their rows differ).
C10_InterleavingLosesRows ==
    BothDone => ((\E p \in Savers : ~HasRowsOf(p)) <=> (Interleaved /\ DistinctRows))

\* both savers have finished and the historical file lacks the rows of one
C10_LostUpdate ==
    /\ BothDone
    /\ Interleaved
    /\ \E p \in Savers : ~HasRowsOf(p) /\ sdf[p] /= << >>

(***************************************************************************)
(* The latest snapshot                                                     *)
(***************************************************************************)
\* C11: after a save_data(df) that succeeded, the latest snapshot is df,
\* row for row: the batch just saved and no record of an earlier batch,
\* whatever was saved before.
C11_LatestIsTheBatchJustSaved ==
    (steps = AllSteps /\ ret = "True") => latest = df

\* a second batch has been saved after a different one, which is still in
\* its timestamped snapshot
C11_SecondBatchSaved ==
    /\ runs = 2
    /\ steps = AllSteps /\ ret = "True"
    /\ \E t \in DOMAIN snapshots :
          /\ snapshots[t] /= << >>
          /\ \A i \in 1..Len(snapshots[t]) : \A j \in 1..Len(df) :
                snapshots[t][i].indicator /= df[j].indicator

(***************************************************************************)
(* Dataset ids                                                             *)
(***************************************************************************)
Unknown == <<"u","n","k","n","o","w","n">>

\* the indicator name in lower case without its punctuation
CleanedName(name) == strip_punctuation(str_lower(name))

MapsATerm(name) == \E k \in 1..Len(term_map) : Contains(CleanedName(name), term_map[k][1])

\* the part of a dataset id after abs_<4 characters>_
KeyPart(id) == SubSeq(id, 10, Len(id))

FirstThreeWords(name) == Take(str_split(CleanedName(name)), 3)

Fragments(words) == Seq_([i \in 1..Len(words) |-> Take(words[i], 4)])

C13_DatasetIdUnderFifty ==
    \A i \in 1..Len(named) : Len(named[i].dataset_id) < 50

\* an indicator of three words of more than ten letters each has got its id
C13_LongWordsNamed ==
    /\ Len(named) >= 1
    /\ ~MapsATerm(named[1].indicator)
    /\ Len(FirstThreeWords(named[1].indicator)) = 3
    /\ \A w \in 1..3 : Len(FirstThreeWords(named[1].indicator)[w]) > 10
    /\ Len(named[1].dataset_id) = 23

\* the record's indicator maps no term and is not empty
NamedByWords(rec) == rec.indicator /= << >> /\ ~MapsATerm(rec.indicator)

\* C14 as stated: when no term of the map is in the cleaned name, the key
\* part of the id is the first 3 words of the cleaned name, each cut to its
\* first 4 characters, joined with '_': three fragments for a name of three
\* words or more.
C14_FirstThreeWordsJoined ==
    \A i \in 1..Len(named) :
        NamedByWords(named[i]) =>
            KeyPart(named[i].dataset_id) =
                join_underscore(Fragments(FirstThreeWords(named[i].indicator)))

\* the words of more than 2 characters
LongerWords(words) == SelectSeq(words, LAMBDA w : Len(w) > 2)

\* C14: when no term of the map is in the cleaned name, the key part of the
\* id is made of those of the first 3 words of the cleaned name that have
\* more than 2 characters, each cut to its first 4 characters, joined with
\* '_': a name of three words or more gives three fragments or fewer.
C14_FirstThreeWordsFilteredJoined ==
    \A i \in 1..Len(named) :
        NamedByWords(named[i]) =>
            KeyPart(named[i].dataset_id) =
                join_underscore(Fragments(LongerWords(FirstThreeWords(named[i].indicator))))

\* a name of three words, the second of two letters, has got a key part of
\* two fragments
C14_ShortWordDropped ==
    /\ Len(named) >= 1
    /\ NamedByWords(named[1])
    /\ Len(FirstThreeWords(named[1].indicator)) = 3
    /\ Len(FirstThreeWords(named[1].indicator)[2]) = 2
    /\ Len(SelectSeq(KeyPart(named[1].dataset_id), LAMBDA c : c = "_")) = 1

\* id begins with prefix
BeginsWith(id, prefix) == Len(id) >= Len(prefix) /\ SubSeq(id, 1, Len(prefix)) = prefix

UnderscoredSpaces(text) == Seq_([i \in 1..Len(text) |-> IF text[i] = " " THEN "_" ELSE text[i]])

\* C15 as stated: the id is 'unknown' exactly when the indicator name is
\* empty; otherwise it begins with 'abs_', the first 4 characters of the
\* category with its spaces replaced by underscores, and '_'.
C15_SentinelOrCategoryPrefix ==
    \A i \in 1..Len(named) :
        /\ (named[i].dataset_id = Unknown) <=> (named[i].indicator = << >>)
        /\ (named[i].indicator /= << >>) =>
              BeginsWith(named[i].dataset_id,
                         <<"a","b","s","_">> \o Take(UnderscoredSpaces(named[i].category), 4) \o <<"_">>)

\* C15: the id is 'unknown' exactly when the indicator name is empty;
\* otherwise it begins with 'abs_', the first 4 characters of the category
\* in lower case with its spaces replaced by underscores, and '_'.
C15_SentinelOrLowerCategoryPrefix ==
    \A i \in 1..Len(named) :
        /\ (named[i].dataset_id = Unknown) <=> (named[i].indicator = << >>)
        /\ (named[i].indicator /= << >>) =>
              BeginsWith(named[i].dataset_id,
                         <<"a","b","s","_">>
                            \o Take(UnderscoredSpaces(str_lower(named[i].category)), 4) \o <<"_">>)

\* an indicator made of punctuation only has got an id that is the prefix
\* of its category and nothing more
C15_PunctuationOnlyNamed ==
    /\ Len(named) >= 1
    /\ named[1].indicator /= << >>
    /\ CleanedName(named[1].indicator) = << >>
    /\ named[1].dataset_id = <<"a","b","s","_","n","a","t","i","_">>

\* C16: two rows of one scrape that stand in the same category under
\* different indicator names never get the same dataset id.
C16_OneIdPerIndicator ==
    Scraped =>
        \A i, j \in 1..Len(df) :
            (df[i].category = df[j].category /\ df[i].indicator /= df[j].indicator) =>
                df[i].dataset_id /= df[j].dataset_id

(***************************************************************************)
(* Month and year period texts, and the frequency                          *)
(***************************************************************************)
MonthAbbreviations ==
    << <<"J","a","n">>, <<"F","e","b">>, <<"M","a","r">>, <<"A","p","r">>, <<"M","a","y">>, <<"J","u","n">>, <<"J","u","l">>, <<"A","u","g">>, <<"S","e","p">>, <<"O","c","t">>, <<"N","o","v">>, <<"D","e","c">> >>

FullMonthNames ==
    << <<"J","a","n","u","a","r","y">>,
       <<"F","e","b","r","u","a","r","y">>,
       <<"M","a","r","c","h">>,
       <<"A","p","r","i","l">>,
       <<"M","a","y">>,
       <<"J","u","n","e">>,
       <<"J","u","l","y">>,
       <<"A","u","g","u","s","t">>,
       <<"S","e","p","t","e","m","b","e","r">>,
       <<"O","c","t","o","b","e","r">>,
       <<"N","o","v","e","m","b","e","r">>,
       <<"D","e","c","e","m","b","e","r">> >>

MonthNumbers ==
    << <<"0","1">>, <<"0","2">>, <<"0","3">>, <<"0","4">>, <<"0","5">>, <<"0","6">>, <<"0","7">>, <<"0","8">>, <<"0","9">>, <<"1","0">>, <<"1","1">>, <<"1","2">> >>

MidnightOfFirst == <<"-","0","1","T","0","0",":","0","0",":","0","0">>

AllDigits(text) == \A i \in 1..Len(text) : IsDigit(text[i])

\* text reads name, whitespace, four digits
IsMonthYearText(text, name) ==
    LET n == Len(name)
    IN  /\ Len(text) >= n + 5
        /\ SubSeq(text, 1, n) = name
        /\ \A i \in (n + 1)..(Len(text) - 4) : IsSpace(text[i])
        /\ AllDigits(SubSeq(text, Len(text) - 3, Len(text)))

\* C17: every period text "<month> <year>", the month written as its
\* 3-letter abbreviation or as its full name, gives the date
\* <year>-MM-01T00:00:00 with MM the number of the month.
C17_MonthTextIsMonthDate ==
    emitted /= << >> =>
        \A k \in 1..12 : \A name \in {MonthAbbreviations[k], FullMonthNames[k]} :
            IsMonthYearText(period_text, name) =>
                emitted[1].datetime =
                    SubSeq(period_text, Len(period_text) - 3, Len(period_text))
                        \o <<"-">> \o MonthNumbers[k] \o MidnightOfFirst

\* C18: every period text of exactly four digits gives the frequency
\* annual and the date <year>-01-01T00:00:00.
C18_FourDigitsIsAnnual ==
    (emitted /= << >> /\ Len(period_text) = 4 /\ AllDigits(period_text)) =>
        /\ emitted[1].frequency = "annual"
        /\ emitted[1].datetime = period_text \o <<"-","0","1">> \o MidnightOfFirst

\* the row of the period 1999 has been parsed
C18_YearParsed ==
    /\ emitted /= << >>
    /\ period_text = <<"1","9","9","9">>
    /\ emitted[1].period = period_text
    /\ emitted[1].frequency = "annual"

\* the first word of the text
LeadingToken(text) == IF str_split(text) = << >> THEN << >> ELSE str_split(text)[1]

\* the word is a month, in full or cut to three letters or more, in any
\* letter case
IsMonthWord(word) ==
    /\ Len(word) >= 3
    /\ \E k \in 1..12 : str_lower(word) = Take(str_lower(FullMonthNames[k]), Len(word))

\* text has none of the three shapes: it does not begin with four digits,
\* and its first word is not a month
HasNoShape(text) ==
    /\ ~(Len(text) >= 4 /\ AllDigits(SubSeq(text, 1, 4)))
    /\ ~IsMonthWord(LeadingToken(text))

\* the rules of the frequency, in their order
FrequencyOfText(text) ==
    LET lower == str_lower(text)
    IN  IF Contains(lower, <<"q","t","r">>) \/ Contains(lower, <<"q","u","a","r","t","e","r">>)
        THEN "quarterly"
        ELSE IF \/ \E k \in 1..12 : Contains(lower, str_lower(MonthAbbreviations[k]))
                \/ Contains(lower, <<"j","u","n","e">>)
        THEN "monthly"
        ELSE IF Len(text) = 4 /\ AllDigits(text)
        THEN "annual"
        ELSE "unknown"

\* C19: a period text of none of the three shapes (quarter, month, year
\* first) gives a row with a null date, no date being made up for a text
\* whose first word is not a month, and the frequency of the row is still
\* the one its period text gives.
C19_NoShapeNoDate ==
    (emitted /= << >> /\ HasNoShape(period_text)) =>
        /\ emitted[1].datetime = <<"None">>
        /\ emitted[1].frequency = FrequencyOfText(emitted[1].period)

\* C20: the frequency of a record is a function of its period text alone,
\* by the rules in their order: 'qtr' or 'quarter' in it, in any letter
\* case, gives quarterly; else a 3-letter month abbreviation or 'june' in
\* it gives monthly; else exactly four digits give annual; else, and for
\* the empty text, unknown.
C20_FrequencyByOrderedRules ==
    emitted /= << >> => emitted[1].frequency = FrequencyOfText(emitted[1].period)

\* a row has got a date and the frequency unknown
C20_DatedButUnknown ==
    /\ emitted /= << >>
    /\ emitted[1].datetime /= <<"None">>
    /\ emitted[1].frequency = "unknown"


(***************************************************************************)
(* C21: for every value cell text the numeric parser returns a number or   *)
(* null and never raises; when it returns null the row is still emitted,   *)
(* with value = null and value_raw the text of the cell (the text the      *)
(* parser was given, which is the cell's text without the whitespace       *)
(* around it, as for every cell).                                          *)
(***************************************************************************)
ValueParsed == Len(valued) = 1

C21_NumberOrNullNeverRaises ==
    [][ParseValueCell =>
        /\ Len(valued') = 1
        /\ valued'[1].value.kind \in {"num", "inf", "nan", "null"}
        /\ valued'[1].value.kind = "null" =>
              /\ valued'[1].value = NoneValue
              /\ valued'[1].value_raw = str_strip(value_text)]_vars

C21_UnconvertibleTextEmitted ==
    /\ ValueParsed
    /\ value_text = <<"\n"," ","1","2","a","b","c"," ">>
    /\ valued[1].value = NoneValue
    /\ valued[1].value_raw = <<"1","2","a","b","c">>

(***************************************************************************)
(* C22: a value text that is one of the missing-data tokens na, NP, ..,    *)
(* n/a, alone or surrounded by whitespace, or that is empty once commas,   *)
(* $, % and whitespace are removed, is parsed to null.                     *)
(***************************************************************************)
MissingDataTokens ==
    { <<"n","a">>, <<"N","P">>, <<".",".">>, <<"n","/","a">> }

Decoration(c) == c \in {",", "$", "%"} \/ IsSpace(c)

Undecorated(text) == SelectSeq(text, LAMBDA c : ~Decoration(c))

IsMissingText(text) ==
    str_strip(text) \in MissingDataTokens \/ Undecorated(text) = << >>

C22_MissingTextIsNull ==
    (ValueParsed /\ IsMissingText(value_text)) => valued[1].value = NoneValue

C22_PaddedTokenParsed ==
    /\ ValueParsed
    /\ value_text = <<"\n"," ","N","P"," ">>
    /\ valued[1].value = NoneValue

(***************************************************************************)
(* C23: a value text that is a decimal numeral decorated with commas, $,   *)
(* % and whitespace, with an optional leading ASCII or unicode minus, is   *)
(* parsed to the number the numeral denotes, negative exactly when the     *)
(* leading minus is there (the sign of zero apart).                        *)
(***************************************************************************)
HasLeadingMinus(text) ==
    Undecorated(text) /= << >> /\ Undecorated(text)[1] \in {"-", UnicodeMinus}

NumeralOf(text) ==
    IF HasLeadingMinus(text) THEN Tail(Undecorated(text)) ELSE Undecorated(text)

PointsOf(n) == {i \in 1..Len(n) : n[i] = "."}

IsDecoratedNumeral(text) ==
    LET n == NumeralOf(text)
    IN  /\ n /= << >>
        /\ \A i \in 1..Len(n) : IsDigit(n[i]) \/ n[i] = "."
        /\ Cardinality(PointsOf(n)) <= 1
        /\ IsDigit(n[1]) /\ IsDigit(n[Len(n)])

FractionDigits(n) == IF PointsOf(n) = {} THEN 0 ELSE Len(n) - SetMin(PointsOf(n))

RECURSIVE TenTo(_)
TenTo(k) == IF k = 0 THEN 1 ELSE 10 * TenTo(k - 1)

\* the float is the number whose digits are those of the numeral, with its
\* point FractionDigits from the right
Denotes(v, n) ==
    /\ v.kind = "num"
    /\ v.mant * TenTo(IF v.exp > 0 THEN v.exp ELSE 0) * TenTo(FractionDigits(n))
          = DigitsToNat(SelectSeq(n, IsDigit)) * TenTo(IF v.exp < 0 THEN 0 - v.exp ELSE 0)

C23_DecoratedNumeralIsItsNumber ==
    (ValueParsed /\ IsDecoratedNumeral(value_text)) =>
        /\ Denotes(valued[1].value, NumeralOf(value_text))
        /\ valued[1].value.mant /= 0 =>
              (valued[1].value.neg <=> HasLeadingMinus(value_text))

C23_UnicodeMinusDollarCommas ==
    /\ ValueParsed
    /\ value_text = <<UnicodeMinus, "$", "1", ",", "2", "3", "4", ".", "5", "%">>
    /\ valued[1].value = [kind |-> "num", neg |-> TRUE, mant |-> 12345, exp |-> -1]


(***************************************************************************)
(* C24: every scrape issues exactly one HTTP GET, for the fixed page URL:  *)
(* not one per category, and not a second one after a failure.             *)
(***************************************************************************)
KeyIndicatorsPage == "https://www.abs.gov.au/statistics/economy/key-indicators"

C24_OneGetPerScrape == Scraped => requested = <<KeyIndicatorsPage>>

C24_FailedFetchNotRetried ==
    /\ Scraped
    /\ response = "connection_error"
    /\ requested = <<KeyIndicatorsPage>>


(***************************************************************************)
(* C29: within one scrape no table's rows are emitted under two different  *)
(* categories: two categories that both contribute records took them from  *)
(* two different tables of the page.                                       *)
(***************************************************************************)
C29_NoTableUnderTwoCategories ==
    Scraped =>
        \A j, k \in 1..Len(categories) :
            (j /= k /\ CategoryRecords(j) /= << >> /\ CategoryRecords(k) /= << >>)
                => FoundTable(page, categories[j]) /= FoundTable(page, categories[k])


(***************************************************************************)
(* C27: the value save_data returns tells whether the historical file was  *)
(* updated: when it returns True the rows of the saved batch are in the    *)
(* historical file, and when it returns False the historical file is as    *)
(* it was before the call.                                                 *)
(***************************************************************************)
SaveReturns == pc = "validated" /\ pc' = "idle"

BatchIsStored(hist, batch, timestamp) ==
    \A i \in 1..Len(batch) : \E j \in 1..Len(hist) :
        /\ HistoricalKey(hist[j]) = <<batch[i].dataset_id, batch[i].period, timestamp>>
        /\ hist[j].value = batch[i].value
        /\ hist[j].indicator = batch[i].indicator

C27_ReturnTellsHistoricalUpdated ==
    [][SaveReturns =>
        /\ ret' = "True" => BatchIsStored(historical', df, now)
        /\ ret' = "False" => historical' = historical]_vars

(***************************************************************************)
(* C28: the historical file is append-only across runs: when the           *)
(* collection timestamps of its updates are strictly increasing, every     *)
(* update has kept every row stored before and has added one row per       *)
(* record of its batch, so the file holds exactly the rows of all the      *)
(* batches and its row count is the sum of the batch sizes.                *)
(***************************************************************************)
StrictlyIncreasing(us) ==
    \A i, j \in 1..Len(us) : i < j => us[i].collection_date < us[j].collection_date

HistoricalColumns ==
    {"dataset_id", "category", "indicator", "period", "value", "unit",
     "datetime", "frequency", "scrape_date"}

\* the row of the historical file for record r of a batch stamped ts
StoredRow(r, ts) ==
    [c \in HistoricalColumns \cup {"collection_date"} |->
        IF c = "collection_date" THEN ts ELSE r[c]]

RECURSIVE RowsOfUpdates(_)
RowsOfUpdates(us) ==
    IF us = << >> THEN << >>
    ELSE LET u == Head(us)
         IN  Seq_([i \in 1..Len(u.batch) |-> StoredRow(u.batch[i], u.collection_date)])
                \o RowsOfUpdates(Tail(us))

RECURSIVE SumOfBatchSizes(_)
SumOfBatchSizes(us) ==
    IF us = << >> THEN 0 ELSE Len(Head(us).batch) + SumOfBatchSizes(Tail(us))

Occurrences(rows, r) == Cardinality({i \in 1..Len(rows) : rows[i] = r})

C28_HistoricalIsAppendOnly ==
    StrictlyIncreasing(updates) =>
        /\ Len(historical) = SumOfBatchSizes(updates)
        /\ \A i \in 1..Len(historical) :
              Occurrences(historical, historical[i])
                 = Occurrences(RowsOfUpdates(updates), historical[i])

C28_TwoUpdatesOfTheSameRows ==
    /\ Len(updates) = 2
    /\ StrictlyIncreasing(updates)
    /\ updates[1].batch /= << >>
    /\ \A i \in 1..Len(updates[1].batch) : \E j \in 1..Len(updates[2].batch) :
          /\ updates[2].batch[j].dataset_id = updates[1].batch[i].dataset_id
          /\ updates[2].batch[j].period = updates[1].batch[i].period
    /\ Len(historical) = Len(updates[1].batch) + Len(updates[2].batch)


(***************************************************************************)
(* C25: the orchestrator runs every collection module exactly once, in     *)
(* the declared order, even when earlier modules raise: each failure is    *)
(* recorded as a failed module with its error, the successful and failed   *)
(* counts add up to the number of modules, and the process exits with      *)
(* status 1 if and only if at least one module failed.  (The orchestrator  *)
(* is one whose configuration loaded, so that it reaches its modules.)     *)
(***************************************************************************)
DeclaredModules == <<"OHLCV Data", "Macro Data", "Fundamentals", "Events">>

ModuleRaises(k) == module_outcomes[k] /= "returns"

CountOf(status) == Cardinality({k \in 1..Len(results) : results[k].status = status})

ACollectionFailed ==
    \E i \in 1..Len(job_log) :
        job_log[i].job = "run_data_collection" /\ job_log[i].ending = "SystemExit"

\* the job is due at a time the model covers
IsPending(j) == next_run[j] <= clock /\ clock <= MaxTicks

C26_FailedCollectionKeepsScheduler ==
    /\ [](ACollectionFailed => sched_pc /= "exited")
    /\ \A j \in 1..2 : (ACollectionFailed /\ IsPending(j)) ~> ~IsPending(j)

(***************************************************************************)
(* C30: every call of collect_indicator increments exactly one of the      *)
(* counters successful_collections and failed_collections, and returns     *)
(* True exactly when it incremented successful_collections; so when        *)
(* run_collection has returned, successful_collections plus                *)
(* failed_collections is total_indicators.                                 *)
(***************************************************************************)
CollectReturns == fred_pc = "collecting" /\ Len(fqueue') < Len(fqueue)

Incremented(counter) == stats'[counter] - stats[counter]

C30_OneCounterPerCollection ==
    [][/\ CollectReturns =>
            /\ {Incremented("successful_collections"), Incremented("failed_collections")}
                  = {0, 1}
            /\ collected' = "True" <=> Incremented("successful_collections") = 1
            /\ collected' \in {"True", "False"}
       /\ fred_pc' = "done" =>
            stats'.successful_collections + stats'.failed_collections
               = stats'.total_indicators]_vars

C30_ThreeCollectedOneFailed ==
    /\ fred_pc = "done"
    /\ stats.total_indicators = 3
    /\ stats.successful_collections = 2
    /\ stats.failed_collections = 1
    /\ fresult = "False"

====
